---- MODULE Spec2Model ----
(***************************************************************************)
(* Schnorr signatures over the KoalaBear Fp8 curve and the SchnorrAir      *)
(* double-scalar trace (crates curve, schnorr, circuit).                   *)
(*                                                                         *)
(* The arithmetic is the code's, at reduced width so that TLC can          *)
(* enumerate it: the 31-bit prime becomes 5, the degree-8 binomial         *)
(* extension u^8 = 3 becomes the degree-2 extension u^2 = 3, the curve     *)
(* y^2 = x^3 + 3u x + 42639 keeps its equation (42639 mod 5 = 4) and has   *)
(* prime order 19, a u64 limb becomes a 3-bit word, so a scalar is 4 words *)
(* (12 bits, the top bits of every canonical scalar zero as in the code,   *)
(* where the 248-bit order leaves the top byte of 256 bits zero).  The     *)
(* hash field (BabyBear) becomes the prime 2, smaller than the curve's     *)
(* coefficient field as in the code, and the Poseidon2 permutation is an   *)
(* unknown bijection that is sampled as it is queried.                     *)
(***************************************************************************)
EXTENDS Integers, Sequences, FiniteSets, TLC

(***************************************************************************)
(* Base field: KoalaBear and its binomial extension (p3, used through      *)
(* curve::BaseField).                                                      *)
(***************************************************************************)
KoalaBearP == 5
COORD_LIMBS == 2
BinomialW == 3

Fp == 0..(KoalaBearP - 1)
BaseFieldSet == {<<c0, c1>> : c0 \in Fp, c1 \in Fp}
BaseZERO == <<0, 0>>
BaseONE == <<1, 0>>

FpMod(v) == v % KoalaBearP

\* BinomialExtensionField<KoalaBear, COORD_LIMBS>: coefficient-wise sums, and the
\* schoolbook product folded with u^COORD_LIMBS = BinomialW
BaseAdd(a, b) == <<FpMod(a[1] + b[1]), FpMod(a[2] + b[2])>>
BaseSub(a, b) == <<FpMod(a[1] - b[1]), FpMod(a[2] - b[2])>>
BaseNeg(a) == <<FpMod(0 - a[1]), FpMod(0 - a[2])>>
BaseMul(a, b) ==
    <<FpMod(a[1] * b[1] + BinomialW * (a[2] * b[2])), FpMod(a[1] * b[2] + a[2] * b[1])>>

\* p3's Field::inverse: defined for non-zero elements (it panics on zero)
BaseInvTable ==
    [a \in BaseFieldSet \ {BaseZERO} |->
        CHOOSE b \in BaseFieldSet : BaseMul(a, b) = BaseONE]
BaseInverse(a) == BaseInvTable[a]
BaseDiv(a, b) == BaseMul(a, BaseInverse(b))

(***************************************************************************)
(* Affine points (curve/src/affine.rs).                                    *)
(***************************************************************************)
curve_a == <<0, FpMod(3)>>
curve_b == <<FpMod(42639), 0>>

INFINITY == [x |-> BaseZERO, y |-> BaseZERO, is_infinity |-> TRUE]
AffineNew(x, y) == [x |-> x, y |-> y, is_infinity |-> FALSE]

is_on_curve(p) ==
    IF p.is_infinity THEN TRUE
    ELSE LET y2 == BaseMul(p.y, p.y)
             x2 == BaseMul(p.x, p.x)
             x3 == BaseMul(x2, p.x)
             ax == BaseMul(curve_a, p.x)
         IN y2 = BaseAdd(BaseAdd(x3, ax), curve_b)

AffineGenerator == AffineNew(<<2, 3>>, <<2, 2>>)

AffineDouble(p) ==
    IF p.is_infinity THEN p
    ELSE IF p.y = BaseZERO THEN INFINITY
    ELSE LET x2 == BaseMul(p.x, p.x)
             three_x2 == BaseAdd(BaseAdd(x2, x2), x2)
             numerator == BaseAdd(three_x2, curve_a)
             denominator == BaseAdd(p.y, p.y)
             lambda == BaseDiv(numerator, denominator)
             x_r == BaseSub(BaseSub(BaseMul(lambda, lambda), p.x), p.x)
             y_r == BaseSub(BaseMul(lambda, BaseSub(p.x, x_r)), p.y)
         IN AffineNew(x_r, y_r)

AffineNegate(p) == IF p.is_infinity THEN p ELSE AffineNew(p.x, BaseNeg(p.y))

AffineAdd(p, o) ==
    IF p.is_infinity THEN o
    ELSE IF o.is_infinity THEN p
    ELSE IF p.x = o.x
         THEN (IF p.y = o.y THEN AffineDouble(p) ELSE INFINITY)
    ELSE LET numerator == BaseSub(o.y, p.y)
             denominator == BaseSub(o.x, p.x)
             lambda == BaseDiv(numerator, denominator)
             x_r == BaseSub(BaseSub(BaseMul(lambda, lambda), p.x), o.x)
             y_r == BaseSub(BaseMul(lambda, BaseSub(p.x, x_r)), p.y)
         IN AffineNew(x_r, y_r)

(***************************************************************************)
(* Scalar field (curve/src/scalarfield.rs): 4 little-endian words in       *)
(* Montgomery form.                                                        *)
(***************************************************************************)
WORD_BITS == 3
NUM_WORDS == 4
WordMod == 2 ^ WORD_BITS
Words == 0..(WordMod - 1)
TotalMod == 2 ^ (WORD_BITS * NUM_WORDS)

ModulusInt == 19
MU == 5

LimbsToInt(l) == l[1] + WordMod * (l[2] + WordMod * (l[3] + WordMod * l[4]))
IntToLimbs(v) ==
    <<v % WordMod, (v \div WordMod) % WordMod,
      (v \div (WordMod * WordMod)) % WordMod,
      (v \div (WordMod * WordMod * WordMod)) % WordMod>>

\* the only element of a singleton: Only({e(v) : v \in {d}}) is e with v the
\* value of d
Only(S) == CHOOSE v \in S : TRUE

MODULUS == IntToLimbs(ModulusInt)
MontR == IntToLimbs(TotalMod % ModulusInt)
R2 == IntToLimbs(((TotalMod % ModulusInt) * (TotalMod % ModulusInt)) % ModulusInt)

\* the carrying_add chain over the 4 words: the wrapped sum and the carry out
AddChain(a, b) ==
    LET full == LimbsToInt(a) + LimbsToInt(b)
    IN [limbs |-> IntToLimbs(full % TotalMod), carry |-> full >= TotalMod]
\* the borrowing_sub chain over the 4 words: the wrapped difference and the borrow out
SubChain(a, b) ==
    LET full == LimbsToInt(a) - LimbsToInt(b)
    IN [limbs |-> IntToLimbs(full % TotalMod), borrow |-> full < 0]

\* add_mod without the subtraction of the modulus
add_mod_unreduced(a, b) == AddChain(a, b).limbs

add_mod(a, b) ==
    LET r == AddChain(a, b)
        s == SubChain(r.limbs, MODULUS)
    IN IF r.carry \/ ~s.borrow THEN s.limbs ELSE r.limbs

sub_mod(a, b) ==
    LET r == SubChain(a, b)
    IN IF r.borrow THEN AddChain(r.limbs, MODULUS).limbs ELSE r.limbs

neg_mod(a) == IF a = <<0, 0, 0, 0>> THEN <<0, 0, 0, 0>> ELSE sub_mod(MODULUS, a)

is_canonical(l) == SubChain(l, MODULUS).borrow

RECURSIVE MulInner(_, _, _, _, _, _)
MulInner(a, b, t, i, j, carry) ==
    IF j = NUM_WORDS THEN [t EXCEPT ![i + NUM_WORDS] = carry % WordMod]
    ELSE Only({Only({MulInner(a, b, next_t, i, j + 1, next_carry) :
                        next_t \in {[t EXCEPT ![i + j] = product % WordMod]},
                        next_carry \in {product \div WordMod}}) :
                  product \in {a[i + 1] * b[j + 1] + t[i + j] + carry}})

RECURSIVE MulOuter(_, _, _, _)
MulOuter(a, b, t, i) ==
    IF i = NUM_WORDS THEN t
    ELSE Only({MulOuter(a, b, next_t, i + 1) : next_t \in {MulInner(a, b, t, i, 0, 0)}})

RECURSIVE RedLow(_, _, _, _, _)
RedLow(t, k, i, j, carry) ==
    IF j = NUM_WORDS THEN [t |-> t, carry |-> carry]
    ELSE Only({Only({RedLow(next_t, k, i, j + 1, next_carry) :
                        next_t \in {[t EXCEPT ![i + j] = product % WordMod]},
                        next_carry \in {product \div WordMod}}) :
                  product \in {k * MODULUS[j + 1] + t[i + j] + carry}})

RECURSIVE RedHigh(_, _, _, _)
RedHigh(t, i, j, carry) ==
    IF j >= 2 * NUM_WORDS - i THEN t
    ELSE Only({Only({RedHigh(next_t, i, j + 1, next_carry) :
                        next_t \in {[t EXCEPT ![i + j] = sum % WordMod]},
                        next_carry \in {sum \div WordMod}}) :
                  sum \in {t[i + j] + carry}})

RECURSIVE RedOuter(_, _)
RedOuter(t, i) ==
    IF i = NUM_WORDS THEN t
    ELSE Only({Only({RedOuter(next_t, i + 1) :
                        next_t \in {RedHigh(low.t, i, NUM_WORDS, low.carry)}}) :
                  low \in {RedLow(t, (t[i] * MU) % WordMod, i, 0, 0)}})

\* the high half of t, less the modulus when it is not below it
MontgomeryFinish(t) ==
    IF ~SubChain(<<t[4], t[5], t[6], t[7]>>, MODULUS).borrow
    THEN sub_mod(<<t[4], t[5], t[6], t[7]>>, MODULUS)
    ELSE <<t[4], t[5], t[6], t[7]>>

\* montgomery_mul without the reduction rounds
montgomery_mul_without_reduction(a, b) ==
    IF Len(a) = NUM_WORDS /\ Len(b) = NUM_WORDS
    THEN MontgomeryFinish(MulOuter(a, b, [n \in 0..(2 * NUM_WORDS - 1) |-> 0], 0))
    ELSE <<>>

\* both operands are [u64; NUM_WORDS] values, t the 2 * NUM_WORDS word product
montgomery_mul(a, b) ==
    IF Len(a) = NUM_WORDS /\ Len(b) = NUM_WORDS
    THEN Only({MontgomeryFinish(RedOuter(product, 0)) :
                  product \in {MulOuter(a, b, [n \in 0..(2 * NUM_WORDS - 1) |-> 0], 0)}})
    ELSE <<>>

from_canonical_limbs(limbs) == montgomery_mul(limbs, R2)
from_canonical_u64(val) == montgomery_mul(<<val, 0, 0, 0>>, R2)
to_canonical_u64_vec(s) == montgomery_mul(s, <<1, 0, 0, 0>>)

ScalarZERO == <<0, 0, 0, 0>>
ScalarONE == MontR

\* the values ScalarField::random can return: the Montgomery forms of [0, q)
ScalarFieldSet == {from_canonical_limbs(IntToLimbs(v)) : v \in 0..(ModulusInt - 1)}

\* impl ScalarBits for ScalarField: the canonical limbs, out of Montgomery form
to_u64_limbs(s) == to_canonical_u64_vec(s)

\* (word >> shift) & (2^width - 1)
WordBits(word, shift, width) == (word \div (2 ^ shift)) % (2 ^ width)

(***************************************************************************)
(* Scalar multiplication (curve/src/group.rs, curve/src/msm.rs and the     *)
(* fixed-base table of generator_table.rs).                                *)
(***************************************************************************)
SCALAR_BITS == NUM_WORDS * WORD_BITS

\* Group::scalar_mul: every bit of every limb, least significant first
RECURSIVE ScalarMulLoop(_, _, _, _)
ScalarMulLoop(result, temp, scalar_limbs, n) ==
    IF n = SCALAR_BITS THEN result
    ELSE LET limb == scalar_limbs[(n \div WORD_BITS) + 1]
             bit == WordBits(limb, n % WORD_BITS, 1)
         IN Only({ScalarMulLoop(next_result, next_temp, scalar_limbs, n + 1) :
                     next_result \in {IF bit = 1 THEN AffineAdd(result, temp) ELSE result},
                     next_temp \in {AffineDouble(temp)}})

\* scalar_mul with the result starting from the point, not from the identity
scalar_mul_from_point(p, scalar) ==
    IF Len(scalar) = NUM_WORDS
    THEN ScalarMulLoop(p, p, to_u64_limbs(scalar), 0)
    ELSE INFINITY

scalar_mul(p, scalar) ==
    IF Len(scalar) = NUM_WORDS
    THEN ScalarMulLoop(INFINITY, p, to_u64_limbs(scalar), 0)
    ELSE INFINITY

\* the window of the byte-wise scans: one window per word at this width
WINDOW_BITS == 3
WINDOW_SIZE == 2 ^ WINDOW_BITS
WINDOWS_PER_WORD == WORD_BITS \div WINDOW_BITS
NUM_WINDOWS == NUM_WORDS * WINDOWS_PER_WORD

\* table[0] = INFINITY, table[1] = point, table[i] = table[i - 1] + table[1];
\* entry i is kept at index i + 1
RECURSIVE FillPointTable(_, _)
FillPointTable(table, i) ==
    IF i = WINDOW_SIZE THEN table
    ELSE FillPointTable(Append(table, AffineAdd(table[i], table[2])), i + 1)

PointTable(point) == FillPointTable(<<INFINITY, point>>, 2)

RECURSIVE DoubleTimes(_, _)
DoubleTimes(p, n) ==
    IF n = 0 THEN p ELSE Only({DoubleTimes(doubled, n - 1) : doubled \in {AffineDouble(p)}})

\* generator_table.rs: one segment per window position, segment j holding the
\* multiples w * 2^(WINDOW_BITS * j) * G
GENERATOR_TABLE ==
    [j \in 0..(NUM_WINDOWS - 1) |->
        PointTable(DoubleTimes(AffineGenerator, WINDOW_BITS * j))]

\* the window table of G itself that msm.rs indexes by a window value
affine_table == GENERATOR_TABLE[0]

ScalarWindow(limbs, w) ==
    WordBits(limbs[(w \div WINDOWS_PER_WORD) + 1],
             (w % WINDOWS_PER_WORD) * WINDOW_BITS, WINDOW_BITS)

RECURSIVE MulGeneratorLoop(_, _, _)
MulGeneratorLoop(result, limbs, j) ==
    IF j = NUM_WINDOWS THEN result
    ELSE Only({MulGeneratorLoop(next_result, limbs, j + 1) :
                  next_result \in {AffineAdd(result,
                                             GENERATOR_TABLE[j][ScalarWindow(limbs, j) + 1])}})

mul_generator_affine(scalar) ==
    IF Len(scalar) = NUM_WORDS
    THEN MulGeneratorLoop(INFINITY, to_u64_limbs(scalar), 0)
    ELSE INFINITY

mul_generator(scalar) == mul_generator_affine(scalar)

\* msm.rs: from the top window down, WINDOW_BITS doublings, then the table
\* entries of the two windows when they are not zero
RECURSIVE DoubleScalarLoop(_, _, _, _, _)
DoubleScalarLoop(result, a_limbs, b_limbs, point_table, w) ==
    IF w < 0 THEN result
    ELSE LET doubled == DoubleTimes(result, WINDOW_BITS)
             a_window == ScalarWindow(a_limbs, w)
             b_window == ScalarWindow(b_limbs, w)
             with_a == IF a_window # 0
                       THEN AffineAdd(doubled, affine_table[a_window + 1])
                       ELSE doubled
             with_b == IF b_window # 0
                       THEN AffineAdd(with_a, point_table[b_window + 1])
                       ELSE with_a
         IN Only({DoubleScalarLoop(next_result, a_limbs, b_limbs, point_table, w - 1) :
                     next_result \in {with_b}})

\* the two scalars exchanged: b * G + a * P
double_scalar_mul_basepoint_affine_swapped(a, b, point) ==
    IF Len(a) = NUM_WORDS /\ Len(b) = NUM_WORDS
    THEN DoubleScalarLoop(INFINITY, to_u64_limbs(b), to_u64_limbs(a),
                          PointTable(point), NUM_WINDOWS - 1)
    ELSE INFINITY

double_scalar_mul_basepoint_affine(a, b, point) ==
    IF Len(a) = NUM_WORDS /\ Len(b) = NUM_WORDS
    THEN DoubleScalarLoop(INFINITY, to_u64_limbs(a), to_u64_limbs(b),
                          PointTable(point), NUM_WINDOWS - 1)
    ELSE INFINITY

double_scalar_mul_basepoint(a, b, point) == double_scalar_mul_basepoint_affine(a, b, point)


(***************************************************************************)
(* Fiat-Shamir challenge (schnorr/src/signatures.rs).  The digest is the   *)
(* padding-free sponge of the Poseidon2 permutation over BabyBear; the     *)
(* permutation is an unknown bijection, kept as the finite part `perm` of  *)
(* it that has been queried so far.                                        *)
(***************************************************************************)
BabyBearP == 2
BabyBear == 0..(BabyBearP - 1)
POSEIDON2_WIDTH == 16
POSEIDON2_RATE == 8
POSEIDON2_OUT == 8

\* the permutation outputs sampled here are the states whose rate cells are
\* the base-BabyBearP digits of the numbers 0..MaxDigest, repeated in the
\* capacity cells
MaxDigest == 3

\* the longest message signed or verified
MaxMsgLen == 2

ZeroState == [i \in 1..POSEIDON2_WIDTH |-> 0]
PermOutputs ==
    {[i \in 1..POSEIDON2_WIDTH |->
         (v \div (BabyBearP ^ ((i - 1) % POSEIDON2_RATE))) % BabyBearP] :
        v \in 0..MaxDigest}

Messages == UNION {[1..n -> BabyBear] : n \in 0..MaxMsgLen}

Range(f) == {f[a] : a \in DOMAIN f}

\* BabyBear::from_u32 of each coefficient's canonical value, x then y
encode_point(point) ==
    <<point.x[1] % BabyBearP, point.x[2] % BabyBearP,
      point.y[1] % BabyBearP, point.y[2] % BabyBearP>>

\* one call of the permutation: its value where it is known, any value not
\* yet taken where it is not
Permute(p, state) ==
    IF state \in DOMAIN p
    THEN {[perm |-> p, state |-> p[state]]}
    ELSE {[perm |-> p @@ (state :> out), state |-> out] :
             out \in PermOutputs \ Range(p)}

\* PaddingFreeSponge::hash_iter: each chunk of up to RATE elements overwrites
\* the first cells of the state, which is then permuted
RECURSIVE SpongeRuns(_, _, _)
SpongeRuns(p, state, input) ==
    IF input = <<>> THEN {[perm |-> p, state |-> state]}
    ELSE LET n == IF Len(input) < POSEIDON2_RATE THEN Len(input) ELSE POSEIDON2_RATE
             absorbed == SubSeq(input, 1, n) \o SubSeq(state, n + 1, POSEIDON2_WIDTH)
             rest == SubSeq(input, n + 1, Len(input))
         IN UNION {SpongeRuns(q.perm, q.state, rest) : q \in Permute(p, absorbed)}

RECURSIVE BitOr(_, _)
BitOr(a, b) ==
    IF a = 0 THEN b
    ELSE IF b = 0 THEN a
    ELSE (IF a % 2 = 1 \/ b % 2 = 1 THEN 1 ELSE 0) + 2 * BitOr(a \div 2, b \div 2)

\* the bit length of a BabyBear element, by which d1 and d3 are shifted
DIGEST_SHIFT == 1

\* the first five digest elements packed into three limbs, the fourth zero
PackChallenge(digest) ==
    LET limb0 == BitOr(digest[1], (digest[2] * (2 ^ DIGEST_SHIFT)) % WordMod)
        limb1 == BitOr(digest[3], (digest[4] * (2 ^ DIGEST_SHIFT)) % WordMod)
        limb2 == digest[5]
    IN from_canonical_limbs(<<limb0, limb1, limb2, 0>>)

\* hash_challenge that looks for the point at infinity in R alone
hash_challenge_r_only(p, r, pk, msg) ==
    IF r.is_infinity
    THEN {[tag |-> "Err", e |-> ScalarZERO, perm |-> p]}
    ELSE {[tag |-> "Ok", e |-> PackChallenge(SubSeq(q.state, 1, POSEIDON2_OUT)),
           perm |-> q.perm] :
             q \in SpongeRuns(p, ZeroState, encode_point(r) \o encode_point(pk) \o msg)}

\* every run of hash_challenge under the permutation known so far
hash_challenge(p, r, pk, msg) ==
    IF r.is_infinity \/ pk.is_infinity
    THEN {[tag |-> "Err", e |-> ScalarZERO, perm |-> p]}
    ELSE {[tag |-> "Ok", e |-> PackChallenge(SubSeq(q.state, 1, POSEIDON2_OUT)),
           perm |-> q.perm] :
             q \in SpongeRuns(p, ZeroState, encode_point(r) \o encode_point(pk) \o msg)}

(***************************************************************************)
(* Keys and signatures (schnorr/src/keys.rs).                              *)
(***************************************************************************)
NoSignature == [tag |-> "None", r |-> INFINITY, s |-> ScalarZERO]

verifying_key(scalar) == mul_generator(scalar)

\* sign with the signing key left out of the response: s = k + e
sign_without_key(p, scalar, nonce, msg) ==
    LET r == mul_generator(nonce)
        pk == verifying_key(scalar)
    IN {IF h.tag = "Err"
        THEN [sig |-> [tag |-> "Err", r |-> INFINITY, s |-> ScalarZERO], perm |-> h.perm]
        ELSE [sig |-> [tag |-> "Ok", r |-> r, s |-> add_mod(nonce, h.e)],
              perm |-> h.perm] :
            h \in hash_challenge(p, r, pk, msg)}

\* SigningKey::sign with the nonce its rng call returns
sign(p, scalar, nonce, msg) ==
    LET r == mul_generator(nonce)
        pk == verifying_key(scalar)
    IN {IF h.tag = "Err"
        THEN [sig |-> [tag |-> "Err", r |-> INFINITY, s |-> ScalarZERO], perm |-> h.perm]
        ELSE [sig |-> [tag |-> "Ok", r |-> r,
                       s |-> add_mod(nonce, montgomery_mul(h.e, scalar))],
              perm |-> h.perm] :
            h \in hash_challenge(p, r, pk, msg)}

\* verify that compares the x coordinates alone
verify_x_only(p, point, msg, sig) ==
    IF point.is_infinity \/ sig.r.is_infinity
    THEN {[result |-> "Err(InvalidPoint)", perm |-> p]}
    ELSE {IF h.tag = "Err"
          THEN [result |-> "Err(InvalidPoint)", perm |-> h.perm]
          ELSE LET lhs == double_scalar_mul_basepoint(sig.s, neg_mod(h.e), point)
               IN [result |-> IF lhs.x = sig.r.x THEN "Ok(true)" ELSE "Ok(false)",
                   perm |-> h.perm] :
            h \in hash_challenge(p, sig.r, point, msg)}

\* VerifyingKey::verify
verify(p, point, msg, sig) ==
    IF point.is_infinity \/ sig.r.is_infinity
    THEN {[result |-> "Err(InvalidPoint)", perm |-> p]}
    ELSE {IF h.tag = "Err"
          THEN [result |-> "Err(InvalidPoint)", perm |-> h.perm]
          ELSE LET lhs == double_scalar_mul_basepoint(sig.s, neg_mod(h.e), point)
               IN [result |-> IF lhs = sig.r THEN "Ok(true)" ELSE "Ok(false)",
                   perm |-> h.perm] :
            h \in hash_challenge(p, sig.r, point, msg)}

(***************************************************************************)
(* Circuit points and scalars (circuit/src/point_ops.rs,                   *)
(* circuit/src/scalar_arithmetic.rs, circuit/src/signature_witness.rs).    *)
(***************************************************************************)
infinity == [x |-> <<0, 0>>, y |-> <<0, 0>>, is_infinity |-> TRUE]

from_affine(point) ==
    IF point.is_infinity THEN infinity
    ELSE [x |-> point.x, y |-> point.y, is_infinity |-> FALSE]

to_affine(point) == IF point.is_infinity THEN INFINITY ELSE AffineNew(point.x, point.y)

CircuitAdd(point, other) == from_affine(AffineAdd(to_affine(point), to_affine(other)))
CircuitDouble(point) == from_affine(AffineDouble(to_affine(point)))

\* scalar_to_bits over the stored Montgomery limbs, not the canonical ones
scalar_to_bits_montgomery(scalar) ==
    [i \in 1..(NUM_WORDS * WORD_BITS) |->
        WordBits(scalar[((i - 1) \div WORD_BITS) + 1], (i - 1) % WORD_BITS, 1) = 1]

\* the bits of the canonical words, least significant first
scalar_to_bits(scalar) ==
    LET limbs == to_canonical_u64_vec(scalar)
    IN [i \in 1..(NUM_WORDS * WORD_BITS) |->
           WordBits(limbs[((i - 1) \div WORD_BITS) + 1], (i - 1) % WORD_BITS, 1) = 1]

SCALAR_LIMBS == 3
LIMB_BITS == 2

\* from_scalar_field without the bits of the next word
from_scalar_field_without_next(scalar) ==
    LET canonical == to_canonical_u64_vec(scalar)
        Limb(limb_idx) ==
            LET bit_position == limb_idx * LIMB_BITS
                word_idx == bit_position \div WORD_BITS
                bit_offset == bit_position % WORD_BITS
            IN IF bit_position >= NUM_WORDS * WORD_BITS \/ word_idx >= NUM_WORDS THEN 0
               ELSE FpMod(WordBits(canonical[word_idx + 1], bit_offset, LIMB_BITS))
    IN [limbs |-> [i \in 1..SCALAR_LIMBS |-> Limb(i - 1)]]

\* CircuitScalar::from_scalar_field: LIMB_BITS bits per limb, taken from one
\* word or from the top of one and the bottom of the next
from_scalar_field(scalar) ==
    LET canonical == to_canonical_u64_vec(scalar)
        Limb(limb_idx) ==
            LET bit_position == limb_idx * LIMB_BITS
                word_idx == bit_position \div WORD_BITS
                bit_offset == bit_position % WORD_BITS
                bits_from_next == bit_offset + LIMB_BITS - WORD_BITS
            IN IF bit_position >= NUM_WORDS * WORD_BITS \/ word_idx >= NUM_WORDS THEN 0
               ELSE IF bit_offset + LIMB_BITS > WORD_BITS /\ word_idx + 1 < NUM_WORDS
               THEN FpMod(BitOr(WordBits(canonical[word_idx + 1], bit_offset, LIMB_BITS),
                                WordBits(canonical[word_idx + 2], 0, bits_from_next)
                                    * (2 ^ (LIMB_BITS - bits_from_next))))
               ELSE FpMod(WordBits(canonical[word_idx + 1], bit_offset, LIMB_BITS))
    IN [limbs |-> [i \in 1..SCALAR_LIMBS |-> Limb(i - 1)]]

RECURSIVE ToScalarWords(_, _, _)
ToScalarWords(limbs, idx, result) ==
    IF idx = SCALAR_LIMBS THEN result
    ELSE LET limb_value == limbs[idx + 1]
             bit_position == idx * LIMB_BITS
             word_idx == bit_position \div WORD_BITS
             bit_offset == bit_position % WORD_BITS
             overflow_bits == bit_offset + LIMB_BITS - WORD_BITS
             low == [result EXCEPT
                        ![word_idx + 1] = BitOr(@, (limb_value * (2 ^ bit_offset)) % WordMod)]
             both == IF bit_offset + LIMB_BITS > WORD_BITS /\ word_idx + 1 < NUM_WORDS
                     THEN [low EXCEPT
                              ![word_idx + 2] =
                                  BitOr(@, limb_value \div (2 ^ (LIMB_BITS - overflow_bits)))]
                     ELSE low
         IN ToScalarWords(limbs, idx + 1, IF word_idx < NUM_WORDS THEN both ELSE result)

\* CircuitScalar::to_scalar_field
to_scalar_field(cs) ==
    from_canonical_limbs(ToScalarWords(cs.limbs, 0, [w \in 1..NUM_WORDS |-> 0]))

NoWitness ==
    [tag |-> "None", r |-> infinity, s |-> from_scalar_field(ScalarZERO),
     public_key |-> infinity, message |-> <<>>, challenge |-> from_scalar_field(ScalarZERO)]

\* SignatureWitness::new: every run under the permutation known so far
SignatureWitnessNew(p, sig, public_key, msg) ==
    {[witness |->
         IF h.tag = "Err" THEN [NoWitness EXCEPT !.tag = "Err"]
         ELSE [tag |-> "Ok", r |-> from_affine(sig.r), s |-> from_scalar_field(sig.s),
               public_key |-> from_affine(public_key), message |-> msg,
               challenge |-> from_scalar_field(h.e)],
      perm |-> h.perm] :
        h \in hash_challenge(p, sig.r, public_key, msg)}

(***************************************************************************)
(* The Schnorr trace (circuit/src/schnorr_air.rs): column layout and the   *)
(* trace builders.  A matrix is the sequence of its rows and a row the     *)
(* sequence of its cells: row i is at index i + 1, column c at index c + 1.*)
(***************************************************************************)
SCHNORR_BASE_PUBLIC == COORD_LIMBS * 2
SCHNORR_R_PUBLIC == COORD_LIMBS * 2
SCHNORR_PUBLIC_VALUES == SCHNORR_BASE_PUBLIC + SCHNORR_R_PUBLIC

\* the DS_* column constants
DS ==
    [ACC_X_START |-> 0,
     ACC_Y_START |-> COORD_LIMBS,
     PK_X_START |-> 2 * COORD_LIMBS,
     PK_Y_START |-> 3 * COORD_LIMBS,
     PK_DOUBLE_X_START |-> 4 * COORD_LIMBS,
     PK_DOUBLE_Y_START |-> 5 * COORD_LIMBS,
     PK_DOUBLE_NUM_START |-> 6 * COORD_LIMBS,
     PK_DOUBLE_DEN_START |-> 7 * COORD_LIMBS,
     PK_DOUBLE_INV_START |-> 8 * COORD_LIMBS,
     PK_DOUBLE_SLOPE_START |-> 9 * COORD_LIMBS,
     SUM_X_START |-> 10 * COORD_LIMBS,
     SUM_Y_START |-> 11 * COORD_LIMBS,
     SUM_NUM_START |-> 12 * COORD_LIMBS,
     SUM_DEN_START |-> 13 * COORD_LIMBS,
     SUM_INV_START |-> 14 * COORD_LIMBS,
     SUM_SLOPE_START |-> 15 * COORD_LIMBS,
     ADDEND_X_START |-> 16 * COORD_LIMBS,
     ADDEND_Y_START |-> 17 * COORD_LIMBS,
     ADD_X_START |-> 18 * COORD_LIMBS,
     ADD_Y_START |-> 19 * COORD_LIMBS,
     ADD_NUM_START |-> 20 * COORD_LIMBS,
     ADD_DEN_START |-> 21 * COORD_LIMBS,
     ADD_INV_START |-> 22 * COORD_LIMBS,
     ADD_SLOPE_START |-> 23 * COORD_LIMBS,
     S_BIT_COL |-> 24 * COORD_LIMBS,
     E_BIT_COL |-> 24 * COORD_LIMBS + 1,
     ACC_INF_COL |-> 24 * COORD_LIMBS + 2]
SCHNORR_COLUMNS == DS.ACC_INF_COL + 1

\* the GS_PREP_* column constants
GS_PREP == [BASE_X_START |-> 0, BASE_Y_START |-> COORD_LIMBS, COLS |-> 2 * COORD_LIMBS]

\* usize::next_power_of_two
next_power_of_two(n) ==
    LET powers == {2 ^ k : k \in 0..n}
    IN CHOOSE m \in powers : m >= n /\ \A l \in powers : l >= n => m <= l

is_power_of_two(n) == \E k \in 0..n : n = 2 ^ k

\* row[start + i] = point.x[i] and row[start + i + COORD_LIMBS] = point.y[i]
write_point(row, start, point) ==
    [row EXCEPT ![start + 1] = point.x[1],
                ![start + 2] = point.x[2],
                ![start + COORD_LIMBS + 1] = point.y[1],
                ![start + COORD_LIMBS + 2] = point.y[2]]

write_base(row, start, value) ==
    [row EXCEPT ![start + 1] = value[1], ![start + 2] = value[2]]

\* the row with the intermediates of acc + base written, or the panic of
\* inverse() when the two x coordinates are equal
fill_add_intermediates(row, start, acc, base) ==
    LET add_num == BaseSub(base.y, acc.y)
        add_den == BaseSub(base.x, acc.x)
    IN IF add_den = BaseZERO THEN [panic |-> TRUE, row |-> row]
       ELSE LET add_inv == BaseInverse(add_den)
                add_slope == BaseMul(add_num, add_inv)
            IN [panic |-> FALSE,
                row |-> write_base(
                            write_base(
                                write_base(write_base(row, start, add_num),
                                           start + COORD_LIMBS, add_den),
                                start + 2 * COORD_LIMBS, add_inv),
                            start + 3 * COORD_LIMBS, add_slope)]

\* fill_double_intermediates with the slope of a curve whose a is zero
fill_double_intermediates_without_a(row, start, base) ==
    LET three == FpMod(3)
        base_x2 == BaseMul(base.x, base.x)
        double_num == BaseMul(base_x2, <<three, 0>>)
        double_den == BaseAdd(base.y, base.y)
    IN IF double_den = BaseZERO THEN [panic |-> TRUE, row |-> row]
       ELSE LET double_inv == BaseInverse(double_den)
                double_slope == BaseMul(double_num, double_inv)
            IN [panic |-> FALSE,
                row |-> write_base(
                            write_base(
                                write_base(write_base(row, start, double_num),
                                           start + COORD_LIMBS, double_den),
                                start + 2 * COORD_LIMBS, double_inv),
                            start + 3 * COORD_LIMBS, double_slope)]

\* the row with the intermediates of 2 * base written, or the panic of
\* inverse() when y is zero
fill_double_intermediates(row, start, base) ==
    LET three == FpMod(3)
        a == <<0, three>>
        base_x2 == BaseMul(base.x, base.x)
        double_num == BaseAdd(BaseMul(base_x2, <<three, 0>>), a)
        double_den == BaseAdd(base.y, base.y)
    IN IF double_den = BaseZERO THEN [panic |-> TRUE, row |-> row]
       ELSE LET double_inv == BaseInverse(double_den)
                double_slope == BaseMul(double_num, double_inv)
            IN [panic |-> FALSE,
                row |-> write_base(
                            write_base(
                                write_base(write_base(row, start, double_num),
                                           start + COORD_LIMBS, double_den),
                                start + 2 * COORD_LIMBS, double_inv),
                            start + 3 * COORD_LIMBS, double_slope)]

ZeroRow(width) == [c \in 1..width |-> 0]

\* the row loop with the generator as the addend when both bits are set
DoubleScalarRow_generator_for_both(s_bit, e_bit, acc, acc_inf, pk_current, g_current) ==
    LET pk_double == CircuitDouble(pk_current)
        sum == CircuitAdd(pk_current, g_current)
        addend == IF ~s_bit /\ ~e_bit THEN infinity
                  ELSE IF s_bit /\ ~e_bit THEN g_current
                  ELSE IF ~s_bit /\ e_bit THEN pk_current
                  ELSE g_current
        addend_inf == addend.is_infinity
        doubled == fill_double_intermediates(
                       write_point(
                           write_point(
                               write_point(ZeroRow(SCHNORR_COLUMNS), DS.ACC_X_START, acc),
                               DS.PK_X_START, pk_current),
                           DS.PK_DOUBLE_X_START, pk_double),
                       DS.PK_DOUBLE_NUM_START, pk_current)
        summed == fill_add_intermediates(
                      write_point(doubled.row, DS.SUM_X_START, sum),
                      DS.SUM_NUM_START, pk_current, g_current)
        with_addend == write_point(summed.row, DS.ADDEND_X_START, addend)
        added == IF ~acc_inf /\ ~addend_inf
                 THEN fill_add_intermediates(
                          write_point(with_addend, DS.ADD_X_START, CircuitAdd(acc, addend)),
                          DS.ADD_NUM_START, acc, addend)
                 ELSE IF acc_inf /\ ~addend_inf
                 THEN [panic |-> FALSE,
                       row |-> write_point(with_addend, DS.ADD_X_START, addend)]
                 ELSE [panic |-> FALSE,
                       row |-> write_point(with_addend, DS.ADD_X_START, acc)]
    IN IF doubled.panic \/ summed.panic \/ added.panic
       THEN [panic |-> TRUE, row |-> <<>>, acc |-> acc, acc_inf |-> acc_inf]
       ELSE [panic |-> FALSE,
             row |-> [added.row EXCEPT ![DS.S_BIT_COL + 1] = IF s_bit THEN 1 ELSE 0,
                                       ![DS.E_BIT_COL + 1] = IF e_bit THEN 1 ELSE 0,
                                       ![DS.ACC_INF_COL + 1] = IF acc_inf THEN 1 ELSE 0],
             acc |-> IF acc_inf
                     THEN (IF ~addend_inf THEN addend ELSE acc)
                     ELSE (IF ~addend_inf THEN CircuitAdd(acc, addend) ELSE acc),
             acc_inf |-> acc_inf /\ addend_inf]

\* one pass of the row loop of build_double_scalar_trace: the row written and
\* the accumulator carried to the next row
DoubleScalarRow(s_bit, e_bit, acc, acc_inf, pk_current, g_current) ==
    LET pk_double == CircuitDouble(pk_current)
        sum == CircuitAdd(pk_current, g_current)
        addend == IF ~s_bit /\ ~e_bit THEN infinity
                  ELSE IF s_bit /\ ~e_bit THEN g_current
                  ELSE IF ~s_bit /\ e_bit THEN pk_current
                  ELSE sum
        addend_inf == addend.is_infinity
        doubled == fill_double_intermediates(
                       write_point(
                           write_point(
                               write_point(ZeroRow(SCHNORR_COLUMNS), DS.ACC_X_START, acc),
                               DS.PK_X_START, pk_current),
                           DS.PK_DOUBLE_X_START, pk_double),
                       DS.PK_DOUBLE_NUM_START, pk_current)
        summed == fill_add_intermediates(
                      write_point(doubled.row, DS.SUM_X_START, sum),
                      DS.SUM_NUM_START, pk_current, g_current)
        with_addend == write_point(summed.row, DS.ADDEND_X_START, addend)
        added == IF ~acc_inf /\ ~addend_inf
                 THEN fill_add_intermediates(
                          write_point(with_addend, DS.ADD_X_START, CircuitAdd(acc, addend)),
                          DS.ADD_NUM_START, acc, addend)
                 ELSE IF acc_inf /\ ~addend_inf
                 THEN [panic |-> FALSE,
                       row |-> write_point(with_addend, DS.ADD_X_START, addend)]
                 ELSE [panic |-> FALSE,
                       row |-> write_point(with_addend, DS.ADD_X_START, acc)]
    IN IF doubled.panic \/ summed.panic \/ added.panic
       THEN [panic |-> TRUE, row |-> <<>>, acc |-> acc, acc_inf |-> acc_inf]
       ELSE [panic |-> FALSE,
             row |-> [added.row EXCEPT ![DS.S_BIT_COL + 1] = IF s_bit THEN 1 ELSE 0,
                                       ![DS.E_BIT_COL + 1] = IF e_bit THEN 1 ELSE 0,
                                       ![DS.ACC_INF_COL + 1] = IF acc_inf THEN 1 ELSE 0],
             acc |-> IF acc_inf
                     THEN (IF ~addend_inf THEN addend ELSE acc)
                     ELSE (IF ~addend_inf THEN CircuitAdd(acc, addend) ELSE acc),
             acc_inf |-> acc_inf /\ addend_inf]

\* the rows from row_idx on, each pass of the loop carrying acc, acc_inf,
\* pk_current and g_current to the next
RECURSIVE DoubleScalarRows(_, _, _, _, _, _, _, _)
DoubleScalarRows(s_bits, e_bits, acc, acc_inf, pk_current, g_current, row_idx, num_rows) ==
    IF row_idx = num_rows THEN [panic |-> FALSE, rows |-> <<>>]
    ELSE Only({
        IF step.panic THEN [panic |-> TRUE, rows |-> <<>>]
        ELSE Only({
            IF rest.panic THEN rest
            ELSE [panic |-> FALSE, rows |-> <<step.row>> \o rest.rows] :
            rest \in {DoubleScalarRows(s_bits, e_bits, step.acc, step.acc_inf, pk_next,
                                       g_next, row_idx + 1, num_rows)}}) :
        step \in {DoubleScalarRow(
                     IF row_idx < Len(s_bits) THEN s_bits[row_idx + 1] ELSE FALSE,
                     IF row_idx < Len(e_bits) THEN e_bits[row_idx + 1] ELSE FALSE,
                     acc, acc_inf, pk_current, g_current)},
        pk_next \in {CircuitDouble(pk_current)},
        g_next \in {CircuitDouble(g_current)}})

\* the trace with the accumulator flagged finite from the first row
build_double_scalar_trace_flag_cleared(s_bits, e_bits, pk) ==
    LET longest == IF Len(s_bits) >= Len(e_bits) THEN Len(s_bits) ELSE Len(e_bits)
    IN DoubleScalarRows(s_bits, e_bits, infinity, FALSE, pk, from_affine(AffineGenerator),
                        0, next_power_of_two(longest))

\* build_double_scalar_trace: the rows, or the panic of an inverse() of zero
build_double_scalar_trace(s_bits, e_bits, pk) ==
    LET longest == IF Len(s_bits) >= Len(e_bits) THEN Len(s_bits) ELSE Len(e_bits)
    IN DoubleScalarRows(s_bits, e_bits, infinity, TRUE, pk, from_affine(AffineGenerator),
                        0, next_power_of_two(longest))

build_schnorr_trace(witness) ==
    Only({build_double_scalar_trace(s_bits, neg_e_bits, witness.public_key) :
             s_bits \in {scalar_to_bits(to_scalar_field(witness.s))},
             neg_e_bits \in {scalar_to_bits(neg_mod(to_scalar_field(witness.challenge)))}})

\* the rows with the generator never doubled
RECURSIVE PreprocessedRows_without_double(_, _)
PreprocessedRows_without_double(current, num_rows) ==
    IF num_rows = 0 THEN <<>>
    ELSE <<write_point(ZeroRow(GS_PREP.COLS), GS_PREP.BASE_X_START, current)>>
             \o PreprocessedRows_without_double(current, num_rows - 1)

RECURSIVE PreprocessedRows(_, _)
PreprocessedRows(current, num_rows) ==
    IF num_rows = 0 THEN <<>>
    ELSE Only({<<write_point(ZeroRow(GS_PREP.COLS), GS_PREP.BASE_X_START, current)>>
                   \o PreprocessedRows(next, num_rows - 1) :
               next \in {CircuitDouble(current)}})

build_gs_preprocessed_trace(num_rows) ==
    PreprocessedRows(from_affine(AffineGenerator), num_rows)

\* the public values the example passes to the prover and the verifier
PublicValues(public_key, r) == public_key.x \o public_key.y \o r.x \o r.y

(***************************************************************************)
(* The SchnorrAir constraints (circuit/src/schnorr_air.rs and the fp8      *)
(* helpers of circuit/src/scalar_mul_air.rs).  A builder is the row's      *)
(* selectors; `when` is the product of the filters a constraint is under,  *)
(* and the constraint holds when when * (lhs - rhs) is zero in KoalaBear.  *)
(***************************************************************************)
assert_eq(when, lhs, rhs) == FpMod(when * FpMod(lhs - rhs)) = 0
assert_bool(when, x) == FpMod(when * FpMod(x * (x - 1))) = 0

read_fp8(row, start) == [i \in 1..COORD_LIMBS |-> row[start + i]]
\* assert_fp8_eq on the first coefficient only
assert_fp8_eq_first_limb(when, lhs, rhs) == assert_eq(when, lhs[1], rhs[1])

assert_fp8_eq(when, lhs, rhs) == \A i \in 1..COORD_LIMBS : assert_eq(when, lhs[i], rhs[i])

fp8_one == <<1, 0>>
fp8_a == <<0, FpMod(3)>>
fp8_b == <<FpMod(42639), 0>>
fp8_add(a, b) == <<FpMod(a[1] + b[1]), FpMod(a[2] + b[2])>>
fp8_sub(a, b) == <<FpMod(a[1] - b[1]), FpMod(a[2] - b[2])>>
fp8_mul_scalar(a, scalar) == <<FpMod(a[1] * scalar), FpMod(a[2] * scalar)>>

\* the schoolbook product t[0..2], folded with w: out[k] = t[k] + w * t[k + COORD_LIMBS]
fp8_mul(a, b) ==
    LET t0 == a[1] * b[1]
        t1 == a[1] * b[2] + a[2] * b[1]
        t2 == a[2] * b[2]
        w == FpMod(3)
    IN <<FpMod(t0 + t2 * w), FpMod(t1)>>

\* the curve equation asserted whatever the guard
enforce_on_curve_unguarded(when, row, x_start, y_start) ==
    \A x \in {read_fp8(row, x_start)}, y \in {read_fp8(row, y_start)} :
        \A y2 \in {fp8_mul(y, y)}, x2 \in {fp8_mul(x, x)}, ax \in {fp8_mul(x, fp8_a)} :
            \A x3 \in {fp8_mul(x2, x)} :
                \A rhs \in {fp8_add(fp8_add(x3, ax), fp8_b)} :
                    assert_fp8_eq(1, y2, rhs)

\* the intermediate products are bound once each (\A over a singleton)
enforce_on_curve(when, row, x_start, y_start) ==
    \A x \in {read_fp8(row, x_start)}, y \in {read_fp8(row, y_start)} :
        \A y2 \in {fp8_mul(y, y)}, x2 \in {fp8_mul(x, x)}, ax \in {fp8_mul(x, fp8_a)} :
            \A x3 \in {fp8_mul(x2, x)} :
                \A rhs \in {fp8_add(fp8_add(x3, ax), fp8_b)} :
                    assert_fp8_eq(when, y2, rhs)

enforce_add_constraints_with_base(when, acc_x, acc_y, base_x, base_y, add_num, add_den, add_inv, add_slope, add_x, add_y) ==
    \A num_expected \in {fp8_sub(base_y, acc_y)},
       den_expected \in {fp8_sub(base_x, acc_x)},
       slope2 \in {fp8_mul(add_slope, add_slope)} :
        \A x3 \in {fp8_sub(fp8_sub(slope2, acc_x), base_x)} :
            \A y3 \in {fp8_sub(fp8_mul(add_slope, fp8_sub(acc_x, x3)), acc_y)} :
                /\ assert_fp8_eq(when, add_num, num_expected)
                /\ assert_fp8_eq(when, add_den, den_expected)
                /\ assert_fp8_eq(when, fp8_mul(add_den, add_inv), fp8_one)
                /\ assert_fp8_eq(when, add_slope, fp8_mul(add_num, add_inv))
                /\ assert_fp8_eq(when, add_x, x3)
                /\ assert_fp8_eq(when, add_y, y3)

enforce_double_constraints_with_base(when, base_x, base_y, double_num, double_den, double_inv, double_slope, double_x, double_y) ==
    \A three \in {FpMod(3)},
       x2 \in {fp8_mul(base_x, base_x)},
       slope2 \in {fp8_mul(double_slope, double_slope)} :
        \A num_expected \in {fp8_add(fp8_mul_scalar(x2, three), fp8_a)},
           den_expected \in {fp8_mul_scalar(base_y, FpMod(2))},
           x3 \in {fp8_sub(slope2, fp8_mul_scalar(base_x, FpMod(2)))} :
            \A y3 \in {fp8_sub(fp8_mul(double_slope, fp8_sub(base_x, x3)), base_y)} :
                /\ assert_fp8_eq(when, double_num, num_expected)
                /\ assert_fp8_eq(when, double_den, den_expected)
                /\ assert_fp8_eq(when, fp8_mul(double_den, double_inv), fp8_one)
                /\ assert_fp8_eq(when, double_slope, fp8_mul(double_num, double_inv))
                /\ assert_fp8_eq(when, double_x, x3)
                /\ assert_fp8_eq(when, double_y, y3)

eval_double_scalar_core(builder, row, next_row, preprocessed_row, offset) ==
    LET s_bit == row[offset + DS.S_BIT_COL + 1]
        e_bit == row[offset + DS.E_BIT_COL + 1]
        addend_inf_expr == FpMod((1 - s_bit) * (1 - e_bit))
        add_sel == FpMod(1 - addend_inf_expr)
        next == builder.is_transition
        acc_inf == row[offset + DS.ACC_INF_COL + 1]
        next_acc_inf == next_row[offset + DS.ACC_INF_COL + 1]
        g_x == read_fp8(preprocessed_row, GS_PREP.BASE_X_START)
        g_y == read_fp8(preprocessed_row, GS_PREP.BASE_Y_START)
        pk_x == read_fp8(row, offset + DS.PK_X_START)
        pk_y == read_fp8(row, offset + DS.PK_Y_START)
        sum_x == read_fp8(row, offset + DS.SUM_X_START)
        sum_y == read_fp8(row, offset + DS.SUM_Y_START)
        addend_x == read_fp8(row, offset + DS.ADDEND_X_START)
        addend_y == read_fp8(row, offset + DS.ADDEND_Y_START)
        sel00 == FpMod((1 - s_bit) * (1 - e_bit))
        sel10 == FpMod(s_bit * (1 - e_bit))
        sel01 == FpMod((1 - s_bit) * e_bit)
        sel11 == FpMod(s_bit * e_bit)
    IN /\ assert_bool(1, s_bit)
       /\ assert_bool(1, e_bit)
       /\ assert_bool(1, acc_inf)
       /\ \A i \in 0..(COORD_LIMBS - 1) :
            /\ assert_eq(next, next_row[offset + DS.ACC_X_START + i + 1],
                         row[offset + DS.ACC_X_START + i + 1]
                             + add_sel * (row[offset + DS.ADD_X_START + i + 1]
                                              - row[offset + DS.ACC_X_START + i + 1]))
            /\ assert_eq(next, next_row[offset + DS.ACC_Y_START + i + 1],
                         row[offset + DS.ACC_Y_START + i + 1]
                             + add_sel * (row[offset + DS.ADD_Y_START + i + 1]
                                              - row[offset + DS.ACC_Y_START + i + 1]))
            /\ assert_eq(next, next_row[offset + DS.PK_X_START + i + 1],
                         row[offset + DS.PK_DOUBLE_X_START + i + 1])
            /\ assert_eq(next, next_row[offset + DS.PK_Y_START + i + 1],
                         row[offset + DS.PK_DOUBLE_Y_START + i + 1])
       /\ assert_bool(next, next_acc_inf)
       /\ assert_eq(next, next_acc_inf, acc_inf * addend_inf_expr)
       /\ enforce_double_constraints_with_base(
              1, pk_x, pk_y,
              read_fp8(row, offset + DS.PK_DOUBLE_NUM_START),
              read_fp8(row, offset + DS.PK_DOUBLE_DEN_START),
              read_fp8(row, offset + DS.PK_DOUBLE_INV_START),
              read_fp8(row, offset + DS.PK_DOUBLE_SLOPE_START),
              read_fp8(row, offset + DS.PK_DOUBLE_X_START),
              read_fp8(row, offset + DS.PK_DOUBLE_Y_START))
       /\ enforce_add_constraints_with_base(
              1, pk_x, pk_y, g_x, g_y,
              read_fp8(row, offset + DS.SUM_NUM_START),
              read_fp8(row, offset + DS.SUM_DEN_START),
              read_fp8(row, offset + DS.SUM_INV_START),
              read_fp8(row, offset + DS.SUM_SLOPE_START),
              sum_x, sum_y)
       /\ \A i \in 1..COORD_LIMBS :
            /\ assert_eq(1, addend_x[i],
                         sel00 * 0 + sel10 * g_x[i] + sel01 * pk_x[i] + sel11 * sum_x[i])
            /\ assert_eq(1, addend_y[i],
                         sel00 * 0 + sel10 * g_y[i] + sel01 * pk_y[i] + sel11 * sum_y[i])
       /\ enforce_add_constraints_with_base(
              FpMod((1 - acc_inf) * add_sel),
              read_fp8(row, offset + DS.ACC_X_START),
              read_fp8(row, offset + DS.ACC_Y_START),
              addend_x, addend_y,
              read_fp8(row, offset + DS.ADD_NUM_START),
              read_fp8(row, offset + DS.ADD_DEN_START),
              read_fp8(row, offset + DS.ADD_INV_START),
              read_fp8(row, offset + DS.ADD_SLOPE_START),
              read_fp8(row, offset + DS.ADD_X_START),
              read_fp8(row, offset + DS.ADD_Y_START))
       /\ \A i \in 0..(COORD_LIMBS - 1) :
            /\ assert_eq(FpMod(acc_inf * add_sel), row[offset + DS.ADD_X_START + i + 1],
                         row[offset + DS.ADDEND_X_START + i + 1])
            /\ assert_eq(FpMod(acc_inf * add_sel), row[offset + DS.ADD_Y_START + i + 1],
                         row[offset + DS.ADDEND_Y_START + i + 1])
       /\ enforce_on_curve(FpMod(1 - acc_inf), row, offset + DS.ACC_X_START,
                           offset + DS.ACC_Y_START)
       /\ enforce_on_curve(add_sel, row, offset + DS.ADDEND_X_START,
                           offset + DS.ADDEND_Y_START)
       /\ enforce_on_curve(1, row, offset + DS.SUM_X_START, offset + DS.SUM_Y_START)
       /\ enforce_on_curve(1, row, offset + DS.PK_X_START, offset + DS.PK_Y_START)
       /\ enforce_on_curve(1, preprocessed_row, GS_PREP.BASE_X_START,
                           GS_PREP.BASE_Y_START)

GS_OFFSET == 0

\* SchnorrAir::eval reading the public values as [R, pk]
SchnorrAirEval_r_first(builder, row, next_row, preprocessed_row, public) ==
    LET r_public == SubSeq(public, 1, SCHNORR_BASE_PUBLIC)
        pk_public == SubSeq(public, SCHNORR_BASE_PUBLIC + 1, Len(public))
        generator == from_affine(AffineGenerator)
        first == builder.is_first_row
        last == builder.is_last_row
    IN /\ eval_double_scalar_core(builder, row, next_row, preprocessed_row, GS_OFFSET)
       /\ \A i \in 0..(COORD_LIMBS - 1) :
            /\ assert_eq(first, row[DS.PK_X_START + i + 1], pk_public[i + 1])
            /\ assert_eq(first, row[DS.PK_Y_START + i + 1], pk_public[i + COORD_LIMBS + 1])
            /\ assert_eq(first, preprocessed_row[GS_PREP.BASE_X_START + i + 1],
                         generator.x[i + 1])
            /\ assert_eq(first, preprocessed_row[GS_PREP.BASE_Y_START + i + 1],
                         generator.y[i + 1])
            /\ assert_eq(last, row[DS.ACC_X_START + i + 1], r_public[i + 1])
            /\ assert_eq(last, row[DS.ACC_Y_START + i + 1], r_public[i + COORD_LIMBS + 1])

\* SchnorrAir::eval on one row window: the constraints all evaluate to zero
SchnorrAirEval(builder, row, next_row, preprocessed_row, public) ==
    LET pk_public == SubSeq(public, 1, SCHNORR_BASE_PUBLIC)
        r_public == SubSeq(public, SCHNORR_BASE_PUBLIC + 1, Len(public))
        generator == from_affine(AffineGenerator)
        first == builder.is_first_row
        last == builder.is_last_row
    IN /\ eval_double_scalar_core(builder, row, next_row, preprocessed_row, GS_OFFSET)
       /\ \A i \in 0..(COORD_LIMBS - 1) :
            /\ assert_eq(first, row[DS.PK_X_START + i + 1], pk_public[i + 1])
            /\ assert_eq(first, row[DS.PK_Y_START + i + 1], pk_public[i + COORD_LIMBS + 1])
            /\ assert_eq(first, preprocessed_row[GS_PREP.BASE_X_START + i + 1],
                         generator.x[i + 1])
            /\ assert_eq(first, preprocessed_row[GS_PREP.BASE_Y_START + i + 1],
                         generator.y[i + 1])
            /\ assert_eq(last, row[DS.ACC_X_START + i + 1], r_public[i + 1])
            /\ assert_eq(last, row[DS.ACC_Y_START + i + 1], r_public[i + COORD_LIMBS + 1])

\* the window of row i with no row taken as a transition
RowHolds_without_transition(main, preprocessed, public, i) ==
    LET height == Len(main)
        builder == [is_first_row |-> IF i = 0 THEN 1 ELSE 0,
                    is_last_row |-> IF i = height - 1 THEN 1 ELSE 0,
                    is_transition |-> 0]
    IN SchnorrAirEval(builder, main[i + 1], main[((i + 1) % height) + 1],
                      preprocessed[i + 1], public)

\* the window of row i: the row, the row after it (the first row after the
\* last), the preprocessed row, and the selectors of the row
RowHolds(main, preprocessed, public, i) ==
    LET height == Len(main)
        builder == [is_first_row |-> IF i = 0 THEN 1 ELSE 0,
                    is_last_row |-> IF i = height - 1 THEN 1 ELSE 0,
                    is_transition |-> IF i = height - 1 THEN 0 ELSE 1]
    IN SchnorrAirEval(builder, main[i + 1], main[((i + 1) % height) + 1],
                      preprocessed[i + 1], public)

\* what the verifier of the proof accepts: the constraints hold on every row
ConstraintsHold(main, preprocessed, public) ==
    \A i \in 0..(Len(main) - 1) : RowHolds(main, preprocessed, public, i)

(***************************************************************************)
(* The rest of the curve crate's scalar and group operations               *)
(* (curve/src/scalarfield.rs, curve/src/group.rs, curve/src/projective.rs).*)
(***************************************************************************)
\* every point of the curve: the identity and the pairs that satisfy the equation
CurvePoints ==
    {INFINITY} \cup
        {p \in {AffineNew(x, y) : x \in BaseFieldSet, y \in BaseFieldSet} : is_on_curve(p)}

\* a [u64; NUM_WORDS] value shifted right by one bit, word by word:
\* result[i] = (limbs[i] >> 1) | (limbs[i + 1] << (WORD_BITS - 1))
ShiftRightOne(limbs) ==
    [i \in 1..NUM_WORDS |->
        IF i < NUM_WORDS
        THEN BitOr(limbs[i] \div 2, (limbs[i + 1] * (2 ^ (WORD_BITS - 1))) % WordMod)
        ELSE limbs[i] \div 2]

\* PrimeCharacteristicRing::halve, on the stored limbs
halve(limbs) ==
    IF limbs[1] % 2 = 1 THEN ShiftRightOne(add_mod(limbs, MODULUS)) ELSE ShiftRightOne(limbs)

is_zero(limbs) == limbs = <<0, 0, 0, 0>>

\* pow_vartime: the bits of exp from the least significant one
RECURSIVE PowLoop(_, _, _, _)
PowLoop(result, base, exp, n) ==
    IF n = NUM_WORDS * WORD_BITS THEN result
    ELSE LET bit == WordBits(exp[(n \div WORD_BITS) + 1], n % WORD_BITS, 1)
         IN Only({PowLoop(next_result, next_base, exp, n + 1) :
                     next_result \in {IF bit = 1 THEN montgomery_mul(result, base)
                                      ELSE result},
                     next_base \in {montgomery_mul(base, base)}})

pow_vartime(limbs, exp) ==
    IF is_zero(limbs) THEN ScalarZERO ELSE PowLoop(ScalarONE, limbs, exp, 0)

\* ScalarField::inverse: the power MODULUS - 2
inverse(limbs) == pow_vartime(limbs, sub_mod(MODULUS, <<2, 0, 0, 0>>))

\* Field::try_inverse
try_inverse(limbs) ==
    IF limbs = ScalarZERO THEN [tag |-> "None", value |-> ScalarZERO]
    ELSE [tag |-> "Some", value |-> inverse(limbs)]

\* impl Div for ScalarField
ScalarDiv(limbs, rhs) ==
    Only({montgomery_mul(limbs, inverted) : inverted \in {inverse(rhs)}})

\* Distribution<ScalarField>::sample, one turn of its loop on the words the
\* rng returned: the top of them cleared, then kept when below the modulus
SampleTurn(words) ==
    LET limbs == [words EXCEPT ![NUM_WORDS] = 0]
    IN IF is_canonical(limbs)
       THEN [tag |-> "Return", value |-> from_canonical_limbs(limbs)]
       ELSE [tag |-> "Loop", value |-> ScalarZERO]

\* the window of Group::scalar_mul_windowed: one window per word at this width
GROUP_WINDOW_BITS == 3
GROUP_TABLE_SIZE == 2 ^ GROUP_WINDOW_BITS
GROUP_WINDOWS == (NUM_WORDS * WORD_BITS) \div GROUP_WINDOW_BITS

\* Projective: (X : Y : Z), the identity (0 : 1 : 0)
ProjectiveINFINITY == [x |-> BaseZERO, y |-> BaseONE, z |-> BaseZERO]
ProjectiveIsInfinity(p) == p.z = BaseZERO

ProjectiveToAffine(p) ==
    IF ProjectiveIsInfinity(p) THEN INFINITY
    ELSE Only({AffineNew(BaseMul(p.x, z_inv), BaseMul(p.y, z_inv)) :
                  z_inv \in {BaseInverse(p.z)}})

ProjectiveFromAffine(point) ==
    IF point.is_infinity THEN ProjectiveINFINITY
    ELSE [x |-> point.x, y |-> point.y, z |-> BaseONE]

ProjectiveDouble(p) ==
    IF ProjectiveIsInfinity(p) THEN p
    ELSE ProjectiveFromAffine(AffineDouble(ProjectiveToAffine(p)))

ProjectiveAdd(p, other) ==
    IF ProjectiveIsInfinity(p) THEN other
    ELSE IF ProjectiveIsInfinity(other) THEN p
    ELSE ProjectiveFromAffine(AffineAdd(ProjectiveToAffine(p), ProjectiveToAffine(other)))

\* the implementations of the Group trait: "Affine" and "Projective"
GroupIdentity(g) == IF g = "Affine" THEN INFINITY ELSE ProjectiveINFINITY
GroupIsIdentity(g, p) == IF g = "Affine" THEN p.is_infinity ELSE ProjectiveIsInfinity(p)
GroupDouble(g, p) == IF g = "Affine" THEN AffineDouble(p) ELSE ProjectiveDouble(p)
GroupAdd(g, p, other) ==
    IF g = "Affine" THEN AffineAdd(p, other) ELSE ProjectiveAdd(p, other)

\* Group::scalar_mul for an implementation g
RECURSIVE GroupScalarMulLoop(_, _, _, _, _)
GroupScalarMulLoop(g, result, temp, scalar_limbs, n) ==
    IF n = SCALAR_BITS THEN result
    ELSE LET limb == scalar_limbs[(n \div WORD_BITS) + 1]
             bit == WordBits(limb, n % WORD_BITS, 1)
         IN Only({GroupScalarMulLoop(g, next_result, next_temp, scalar_limbs, n + 1) :
                     next_result \in {IF bit = 1 THEN GroupAdd(g, result, temp) ELSE result},
                     next_temp \in {GroupDouble(g, temp)}})

GroupScalarMul(g, p, scalar) ==
    IF g = "Affine" THEN scalar_mul(p, scalar)
    ELSE GroupScalarMulLoop(g, GroupIdentity(g), p, to_u64_limbs(scalar), 0)

\* table[0] the identity, table[1] the point, table[i] the double of
\* table[i / 2] for an even i and table[i - 1] + table[1] for an odd one; entry
\* i is kept at index i + 1
RECURSIVE FillWindowTable(_, _, _)
FillWindowTable(g, table, i) ==
    IF i = GROUP_TABLE_SIZE THEN table
    ELSE Only({FillWindowTable(g, Append(table, entry), i + 1) :
                  entry \in {IF i % 2 = 0 THEN GroupDouble(g, table[(i \div 2) + 1])
                             ELSE GroupAdd(g, table[i], table[2])}})

RECURSIVE GroupDoubleTimes(_, _, _)
GroupDoubleTimes(g, p, n) ==
    IF n = 0 THEN p
    ELSE Only({GroupDoubleTimes(g, doubled, n - 1) : doubled \in {GroupDouble(g, p)}})

\* from the top window down: GROUP_WINDOW_BITS doublings, then the table
\* entry of the window when it is not zero
RECURSIVE WindowedLoop(_, _, _, _, _)
WindowedLoop(g, result, scalar_limbs, table, w) ==
    IF w < 0 THEN result
    ELSE LET doubled == GroupDoubleTimes(g, result, GROUP_WINDOW_BITS)
             bit_position == w * GROUP_WINDOW_BITS
             window == WordBits(scalar_limbs[(bit_position \div WORD_BITS) + 1],
                                bit_position % WORD_BITS, GROUP_WINDOW_BITS)
         IN Only({WindowedLoop(g, next_result, scalar_limbs, table, w - 1) :
                     next_result \in {IF window # 0 THEN GroupAdd(g, doubled, table[window + 1])
                                      ELSE doubled}})

\* scalar_mul_windowed over the stored limbs, not the canonical ones
scalar_mul_windowed_stored_limbs(g, p, scalar) ==
    IF GroupIsIdentity(g, p) THEN GroupIdentity(g)
    ELSE WindowedLoop(g, GroupIdentity(g), scalar,
                      FillWindowTable(g, <<GroupIdentity(g), p>>, 2), GROUP_WINDOWS - 1)

\* Group::scalar_mul_windowed for an implementation g
scalar_mul_windowed(g, p, scalar) ==
    IF GroupIsIdentity(g, p) THEN GroupIdentity(g)
    ELSE WindowedLoop(g, GroupIdentity(g), to_u64_limbs(scalar),
                      FillWindowTable(g, <<GroupIdentity(g), p>>, 2), GROUP_WINDOWS - 1)

(***************************************************************************)
(* State.                                                                  *)
(***************************************************************************)
VARIABLES
    pc,              \* the step the program is at
    perm,            \* the part of the Poseidon2 permutation queried so far
    signing_key,     \* SigningKey.scalar
    message,         \* the message given to sign
    signature,       \* what sign returned, or the Signature value put in its place
    verify_key,      \* the scalar of the signing key whose verifying key verifies
    verify_message,  \* the message given to verify
    verify_result,   \* what verify returned
    witness,         \* the SignatureWitness
    trace,           \* the main trace given to the prover
    public_values,   \* the public values given to the prover and the verifier
    preprocessed,    \* SchnorrAir::preprocessed_trace()
    accepted,        \* whether the constraints hold on every row
    mutation,        \* the cell of the trace that was overwritten
    call,            \* the library function called on its own, with its arguments
    ret              \* what that call returned

vars == <<pc, perm, signing_key, message, signature, verify_key, verify_message,
          verify_result, witness, trace, public_values, preprocessed, accepted, mutation,
          call, ret>>

circuit_vars == <<witness, trace, public_values, preprocessed, accepted, mutation>>

call_vars == <<call, ret>>

\* the scalars the random draws of a run return
MaxScalar == 3
DrawnScalars == {from_canonical_limbs(IntToLimbs(v)) : v \in 0..MaxScalar}

\* the heights SchnorrAir::new is called with
MaxHeight == 16

NoTrace == [tag |-> "None", rows |-> <<>>]
NoMutation == [row |-> 0, col |-> 0, old |-> 0, new |-> 0]
NoCall == [fn |-> "none"]

Init ==
    /\ pc = "start"
    /\ perm = <<>>
    /\ signing_key = ScalarZERO
    /\ message = <<>>
    /\ signature = NoSignature
    /\ verify_key = ScalarZERO
    /\ verify_message = <<>>
    /\ verify_result = "None"
    /\ witness = NoWitness
    /\ trace = NoTrace
    /\ public_values = <<>>
    /\ preprocessed = <<>>
    /\ accepted = "None"
    /\ mutation = NoMutation
    /\ call = NoCall
    /\ ret = "None"

\* SigningKey::random, the rng returning one of `scalars`
SigningKeyRandomFrom(scalars) ==
    /\ pc = "start"
    /\ \E scalar \in scalars : signing_key' = scalar
    /\ pc' = "keyed"
    /\ UNCHANGED <<perm, message, signature, verify_key, verify_message, verify_result>>
    /\ UNCHANGED circuit_vars
    /\ UNCHANGED call_vars

SigningKeyRandom == SigningKeyRandomFrom(DrawnScalars)

\* signing_key.sign(rng, msg), the message one of `msgs` and the nonce one of `nonces`
SignFrom(msgs, nonces) ==
    /\ pc = "keyed"
    /\ \E msg \in msgs, nonce \in nonces :
         \E out \in sign(perm, signing_key, nonce, msg) :
            /\ message' = msg
            /\ signature' = out.sig
            /\ perm' = out.perm
    /\ pc' = "signed"
    /\ UNCHANGED <<signing_key, verify_key, verify_message, verify_result>>
    /\ UNCHANGED circuit_vars
    /\ UNCHANGED call_vars

Sign == SignFrom(Messages, DrawnScalars)

\* signing_key.verifying_key().verify(msg, signature), for a message of `msgs`
VerifyMessageFrom(msgs) ==
    /\ pc = "signed"
    /\ signature.tag = "Ok"
    /\ \E msg \in msgs :
         \E out \in verify(perm, verifying_key(signing_key), msg, signature) :
            /\ verify_message' = msg
            /\ verify_result' = out.result
            /\ perm' = out.perm
    /\ verify_key' = signing_key
    /\ pc' = "verified"
    /\ UNCHANGED <<signing_key, message, signature>>
    /\ UNCHANGED circuit_vars
    /\ UNCHANGED call_vars

VerifyMessage == VerifyMessageFrom(Messages)

\* other.verifying_key().verify(message, signature), for another signing key
VerifyKey ==
    /\ pc = "signed"
    /\ signature.tag = "Ok"
    /\ \E other \in DrawnScalars \ {signing_key} :
         \E out \in verify(perm, verifying_key(other), message, signature) :
            /\ verify_key' = other
            /\ verify_result' = out.result
            /\ perm' = out.perm
    /\ verify_message' = message
    /\ pc' = "verified"
    /\ UNCHANGED <<signing_key, message, signature>>
    /\ UNCHANGED circuit_vars
    /\ UNCHANGED call_vars

Next == SigningKeyRandom \/ Sign \/ VerifyMessage \/ VerifyKey

Spec == Init /\ [][Next]_vars

(***************************************************************************)
(* The circuit: witness, trace, proof (circuit/examples/                   *)
(* prove_verify_signature.rs), and the values a caller or a prover can     *)
(* put in the place of the honest ones.                                    *)
(***************************************************************************)
\* the message of the signatures that are proven
CircuitMessages == {<<>>}

CircuitSign == SignFrom(CircuitMessages, DrawnScalars)

\* a Signature with the response replaced (its fields are public)
ReplaceResponse ==
    /\ pc = "signed"
    /\ signature.tag = "Ok"
    /\ \E s \in DrawnScalars \ {signature.s} : signature' = [signature EXCEPT !.s = s]
    /\ UNCHANGED <<pc, perm, signing_key, message, verify_key, verify_message,
                   verify_result>>
    /\ UNCHANGED circuit_vars
    /\ UNCHANGED call_vars

VerifySigned == VerifyMessageFrom({message})

\* SignatureWitness::new(&signature, &verifying_key, &message)
NewWitness ==
    /\ pc = "verified"
    /\ \E public_key \in {verifying_key(signing_key)} :
         \E out \in SignatureWitnessNew(perm, signature, public_key, message) :
            /\ witness' = out.witness
            /\ perm' = out.perm
    /\ pc' = "witnessed"
    /\ UNCHANGED <<signing_key, message, signature, verify_key, verify_message,
                   verify_result, trace, public_values, preprocessed, accepted, mutation>>
    /\ UNCHANGED call_vars

\* a SignatureWitness written field by field (its fields are public)
WitnessLiteral ==
    /\ pc = "keyed"
    /\ \E s \in ScalarFieldSet, challenge \in ScalarFieldSet,
          public_key \in {verifying_key(signing_key)} :
         witness' = [tag |-> "Ok", r |-> infinity, s |-> from_scalar_field(s),
                     public_key |-> from_affine(public_key), message |-> <<>>,
                     challenge |-> from_scalar_field(challenge)]
    /\ pc' = "literal"
    /\ UNCHANGED <<perm, signing_key, message, signature, verify_key, verify_message,
                   verify_result, trace, public_values, preprocessed, accepted, mutation>>
    /\ UNCHANGED call_vars

\* build_schnorr_trace(&witness): the trace, or the panic of an inverse() of zero
BuildSchnorrTrace ==
    /\ pc \in {"witnessed", "literal"}
    /\ witness.tag = "Ok"
    /\ \E built \in {build_schnorr_trace(witness)} :
         trace' = IF built.panic THEN [tag |-> "Panic", rows |-> <<>>]
                  ELSE [tag |-> "Ok", rows |-> built.rows]
    /\ pc' = IF pc = "witnessed" THEN "built" ELSE "built_literal"
    /\ UNCHANGED <<perm, signing_key, message, signature, verify_key, verify_message,
                   verify_result, witness, public_values, preprocessed, accepted, mutation>>
    /\ UNCHANGED call_vars

Verdict(main, prep, public) ==
    IF ConstraintsHold(main, prep, public) THEN "Accept" ELSE "Reject"

\* the rest of main: SchnorrAir::new(height), the public values [pk, R],
\* prove_with_preprocessed and verify_with_preprocessed
ProveVerify ==
    /\ pc = "built"
    /\ trace.tag = "Ok"
    /\ is_power_of_two(Len(trace.rows))
    /\ \E prep \in {build_gs_preprocessed_trace(Len(trace.rows))},
          public \in {PublicValues(witness.public_key, witness.r)} :
         /\ preprocessed' = prep
         /\ public_values' = public
         /\ accepted' = Verdict(trace.rows, prep, public)
    /\ pc' = "proved"
    /\ UNCHANGED <<perm, signing_key, message, signature, verify_key, verify_message,
                   verify_result, witness, trace, mutation>>
    /\ UNCHANGED call_vars

\* SchnorrAir::new(num_rows).preprocessed_trace(), away from any witness
SchnorrAirNew ==
    /\ pc = "start"
    /\ \E num_rows \in 1..MaxHeight :
         IF is_power_of_two(num_rows)
         THEN /\ preprocessed' = build_gs_preprocessed_trace(num_rows)
              /\ pc' = "air"
         ELSE /\ preprocessed' = <<>>
              /\ pc' = "air_panic"
    /\ UNCHANGED <<perm, signing_key, message, signature, verify_key, verify_message,
                   verify_result, witness, trace, public_values, accepted, mutation>>
    /\ UNCHANGED call_vars

\* the same proof with pk and R exchanged in the public values
SwapPublicValues ==
    /\ pc = "proved"
    /\ accepted = "Accept"
    /\ \E public \in {PublicValues(witness.r, witness.public_key)} :
         /\ public_values' = public
         /\ accepted' = Verdict(trace.rows, preprocessed, public)
    /\ pc' = "swapped"
    /\ UNCHANGED <<perm, signing_key, message, signature, verify_key, verify_message,
                   verify_result, witness, trace, preprocessed, mutation>>
    /\ UNCHANGED call_vars

\* the first-row accumulators and the bit columns a prover writes its own
\* trace from
ForgedAccumulators ==
    {[acc |-> infinity, acc_inf |-> TRUE]}
        \cup {[acc |-> from_affine(verifying_key(k)), acc_inf |-> FALSE] :
                 k \in DrawnScalars \ {ScalarZERO}}
ForgedBits(num_rows) ==
    {<<>>, <<TRUE>>, [i \in 1..num_rows |-> i = num_rows]}

\* a prover that fills a trace row by row as build_double_scalar_trace does,
\* from bits and a first accumulator of its choice, and proves it for the
\* public values [pk, last accumulator]
ForgeTrace ==
    /\ pc = "keyed"
    /\ \E first \in ForgedAccumulators, num_rows \in {next_power_of_two(NUM_WORDS * WORD_BITS)},
          public_key \in {from_affine(verifying_key(signing_key))} :
         \E s_bits \in ForgedBits(num_rows), e_bits \in ForgedBits(num_rows) :
            \E built \in {DoubleScalarRows(s_bits, e_bits, first.acc, first.acc_inf,
                                           public_key, from_affine(AffineGenerator),
                                           0, num_rows)} :
               /\ ~built.panic
               /\ trace' = [tag |-> "Ok", rows |-> built.rows]
               /\ \E prep \in {build_gs_preprocessed_trace(num_rows)},
                     public \in {SubSeq(built.rows[1], DS.PK_X_START + 1,
                                        DS.PK_X_START + 2 * COORD_LIMBS)
                                 \o SubSeq(built.rows[num_rows], DS.ACC_X_START + 1,
                                           DS.ACC_X_START + 2 * COORD_LIMBS)} :
                    /\ preprocessed' = prep
                    /\ public_values' = public
                    /\ accepted' = Verdict(built.rows, prep, public)
    /\ pc' = "forged"
    /\ UNCHANGED <<perm, signing_key, message, signature, verify_key, verify_message,
                   verify_result, witness, mutation>>
    /\ UNCHANGED call_vars

NextCircuit ==
    \/ SigningKeyRandom
    \/ CircuitSign
    \/ ReplaceResponse
    \/ VerifySigned
    \/ NewWitness
    \/ WitnessLiteral
    \/ BuildSchnorrTrace
    \/ ProveVerify
    \/ SchnorrAirNew
    \/ SwapPublicValues
    \/ ForgeTrace

SpecCircuit == Init /\ [][NextCircuit]_vars

(***************************************************************************)
(* Single-cell mutations of honest traces.                                 *)
(***************************************************************************)
\* the signing keys and the nonces of the traces that are mutated
MutatedKeys == {from_canonical_u64(3)}
MutatedNonces == {from_canonical_u64(2), from_canonical_u64(3)}

MutatedKey == SigningKeyRandomFrom(MutatedKeys)
MutatedSign == SignFrom(CircuitMessages, MutatedNonces)

\* the proof of an accepted trace with one cell overwritten
MutateCell ==
    /\ pc = "proved"
    /\ accepted = "Accept"
    /\ \E row \in 1..Len(trace.rows), col \in 1..SCHNORR_COLUMNS :
         \E value \in Fp \ {trace.rows[row][col]} :
            \E main \in {[trace.rows EXCEPT ![row][col] = value]} :
               /\ trace' = [trace EXCEPT !.rows = main]
               /\ mutation' = [row |-> row - 1, col |-> col - 1,
                               old |-> trace.rows[row][col], new |-> value]
               /\ accepted' = Verdict(main, preprocessed, public_values)
    /\ pc' = "mutated"
    /\ UNCHANGED <<perm, signing_key, message, signature, verify_key, verify_message,
                   verify_result, witness, public_values, preprocessed>>
    /\ UNCHANGED call_vars

NextMutation ==
    \/ MutatedKey
    \/ MutatedSign
    \/ VerifySigned
    \/ NewWitness
    \/ BuildSchnorrTrace
    \/ ProveVerify
    \/ MutateCell

SpecMutation == Init /\ [][NextMutation]_vars

(***************************************************************************)
(* The library functions called on their own: one call from the initial    *)
(* state, its arguments in `call` and what it returned in `ret`.           *)
(***************************************************************************)
program_vars == <<pc, signing_key, message, signature, verify_key, verify_message,
                  verify_result, witness, trace, public_values, preprocessed, accepted,
                  mutation>>

\* every [u64; NUM_WORDS] value below the modulus: the stored limbs of a ScalarField
StoredScalars == {IntToLimbs(v) : v \in 0..(ModulusInt - 1)}

Returned(value) == [tag |-> "Value", value |-> value]

\* ScalarField::from_canonical_u64(val)
CallFromCanonicalU64 ==
    /\ call = NoCall
    /\ \E val \in Words :
         /\ call' = [fn |-> "from_canonical_u64", args |-> <<val>>]
         /\ ret' = Returned(from_canonical_u64(val))
    /\ UNCHANGED <<perm, program_vars>>

\* a + b, a - b, a * b and a / b of two scalars
CallBinary ==
    /\ call = NoCall
    /\ \E a \in StoredScalars, b \in StoredScalars :
         \E fn \in {"add", "sub", "mul", "div"} :
            /\ call' = [fn |-> fn, args |-> <<a, b>>]
            /\ ret' = Returned(CASE fn = "add" -> add_mod(a, b)
                                 [] fn = "sub" -> sub_mod(a, b)
                                 [] fn = "mul" -> montgomery_mul(a, b)
                                 [] fn = "div" -> ScalarDiv(a, b))
    /\ UNCHANGED <<perm, program_vars>>

\* -a, a.halve(), a.inverse() and a.try_inverse() of a scalar
CallUnary ==
    /\ call = NoCall
    /\ \E a \in StoredScalars :
         \E fn \in {"neg", "halve", "inverse", "try_inverse"} :
            /\ call' = [fn |-> fn, args |-> <<a>>]
            /\ ret' = CASE fn = "neg" -> Returned(neg_mod(a))
                        [] fn = "halve" -> Returned(halve(a))
                        [] fn = "inverse" -> Returned(inverse(a))
                        [] fn = "try_inverse" -> try_inverse(a)
    /\ UNCHANGED <<perm, program_vars>>

\* rng.sample(StandardUniform): one turn of the loop for each draw of the rng,
\* until a turn returns; `call` keeps the words of the draw that returned
CallSample ==
    /\ call = NoCall \/ (call.fn = "sample" /\ ret.tag = "Loop")
    /\ \E words \in [1..NUM_WORDS -> Words] :
         \E turn \in {SampleTurn(words)} :
            /\ call' = [fn |-> "sample",
                        args |-> IF turn.tag = "Return" THEN <<words>> ELSE <<>>]
            /\ ret' = turn
    /\ UNCHANGED <<perm, program_vars>>

\* CircuitScalar::from_scalar_field(x) and to_scalar_field of what it returned
CallCircuitScalar ==
    /\ call = NoCall
    /\ \E x \in StoredScalars :
         \E cs \in {from_scalar_field(x)} :
            /\ call' = [fn |-> "from_scalar_field", args |-> <<x>>]
            /\ ret' = [tag |-> "Value", value |-> cs.limbs, back |-> to_scalar_field(cs)]
    /\ UNCHANGED <<perm, program_vars>>

NextScalar ==
    \/ CallFromCanonicalU64
    \/ CallBinary
    \/ CallUnary
    \/ CallSample
    \/ CallCircuitScalar

SpecScalar == Init /\ [][NextScalar]_vars

\* the points given to the Projective implementation: the curve's points with
\* Z = 1 and the same points with all three coordinates doubled
ProjectivePoints ==
    {ProjectiveFromAffine(p) : p \in CurvePoints}
        \cup {[x |-> BaseAdd(p.x, p.x), y |-> BaseAdd(p.y, p.y), z |-> <<2, 0>>] :
                 p \in CurvePoints \ {INFINITY}}

GroupPoints(g) == IF g = "Affine" THEN CurvePoints ELSE ProjectivePoints

\* double_scalar_mul_basepoint_affine(a, b, point)
CallDoubleScalarMul ==
    /\ call = NoCall
    /\ \E a \in StoredScalars, b \in StoredScalars, point \in CurvePoints :
         /\ call' = [fn |-> "double_scalar_mul_basepoint_affine", args |-> <<a, b, point>>]
         /\ ret' = Returned(double_scalar_mul_basepoint_affine(a, b, point))
    /\ UNCHANGED <<perm, program_vars>>

\* point.scalar_mul(scalar), for each implementation of Group
CallScalarMul ==
    /\ call = NoCall
    /\ \E g \in {"Affine", "Projective"}, scalar \in StoredScalars :
         \E point \in GroupPoints(g) :
            /\ call' = [fn |-> "scalar_mul", args |-> <<g, point, scalar>>]
            /\ ret' = Returned(GroupScalarMul(g, point, scalar))
    /\ UNCHANGED <<perm, program_vars>>

\* point.scalar_mul_windowed(scalar), for each implementation of Group
CallScalarMulWindowed ==
    /\ call = NoCall
    /\ \E g \in {"Affine", "Projective"}, scalar \in StoredScalars :
         \E point \in GroupPoints(g) :
            /\ call' = [fn |-> "scalar_mul_windowed", args |-> <<g, point, scalar>>]
            /\ ret' = Returned(scalar_mul_windowed(g, point, scalar))
    /\ UNCHANGED <<perm, program_vars>>

NextCurve ==
    \/ CallDoubleScalarMul
    \/ CallScalarMul
    \/ CallScalarMulWindowed

SpecCurve == Init /\ [][NextCurve]_vars

\* the points given as R and pk: the multiples of G by the drawn scalars, the
\* identity among them
DrawnPoints == {mul_generator(k) : k \in DrawnScalars}

\* encode_point(point)
CallEncodePoint ==
    /\ call = NoCall
    /\ \E point \in CurvePoints \ {INFINITY} :
         /\ call' = [fn |-> "encode_point", args |-> <<point>>]
         /\ ret' = Returned(encode_point(point))
    /\ UNCHANGED <<perm, program_vars>>

\* hash_challenge(r, pk, msg)
CallHashChallenge ==
    /\ call = NoCall
    /\ \E r \in DrawnPoints, pk \in DrawnPoints, msg \in Messages :
         \E h \in hash_challenge(perm, r, pk, msg) :
            /\ call' = [fn |-> "hash_challenge", args |-> <<r, pk, msg>>]
            /\ ret' = [tag |-> h.tag, value |-> h.e]
            /\ perm' = h.perm
    /\ UNCHANGED program_vars

\* VerifyingKey { point: pk }.verify(msg, Signature { r, s })
CallVerify ==
    /\ call = NoCall
    /\ \E r \in DrawnPoints, pk \in DrawnPoints, msg \in Messages, s \in StoredScalars :
         \E out \in verify(perm, pk, msg, [tag |-> "Ok", r |-> r, s |-> s]) :
            /\ call' = [fn |-> "verify", args |-> <<pk, msg, r, s>>, before |-> "None"]
            /\ ret' = [tag |-> out.result, value |-> ScalarZERO]
            /\ perm' = out.perm
    /\ UNCHANGED program_vars

\* the key, message and R of a signature that verified, verified once more
\* with another response
CallVerifyAgain ==
    /\ call.fn = "verify"
    /\ ret.tag = "Ok(true)"
    /\ \E other \in StoredScalars \ {call.args[4]} :
         \E out \in verify(perm, call.args[1], call.args[2],
                           [tag |-> "Ok", r |-> call.args[3], s |-> other]) :
            /\ call' = [fn |-> "verify_again",
                        args |-> <<call.args[1], call.args[2], call.args[3], other>>,
                        before |-> ret.tag]
            /\ ret' = [tag |-> out.result, value |-> ScalarZERO]
            /\ perm' = out.perm
    /\ UNCHANGED program_vars

NextVerify ==
    \/ CallEncodePoint
    \/ CallHashChallenge
    \/ CallVerify
    \/ CallVerifyAgain

SpecVerify == Init /\ [][NextVerify]_vars

(***************************************************************************)
(* The Poseidon2 hash sub-circuit (circuit/src/poseidon2_hash_air.rs).     *)
(* The input is R || pk || msg with a message of three elements; the trace *)
(* is one row of POSEIDON2_NUM_PERMS permutations, each kept as its input  *)
(* state and the state after its last full round.                          *)
(***************************************************************************)
POSEIDON2_INPUT_LEN == 2 * (2 * COORD_LIMBS) + 3
POSEIDON2_NUM_PERMS == (POSEIDON2_INPUT_LEN + POSEIDON2_RATE - 1) \div POSEIDON2_RATE
POSEIDON2_PACKED_LIMBS == 3

NoHashTrace == [inputs |-> <<>>, outputs |-> <<>>]

\* the chunk loop with every chunk written over the all-zero state
RECURSIVE HashTraceRuns_from_zero_state(_, _, _, _)
HashTraceRuns_from_zero_state(p, state, input, rows) ==
    IF input = <<>> THEN {[perm |-> p, state |-> state, rows |-> rows]}
    ELSE LET n == IF Len(input) < POSEIDON2_RATE THEN Len(input) ELSE POSEIDON2_RATE
             absorbed == SubSeq(input, 1, n) \o SubSeq(ZeroState, n + 1, POSEIDON2_WIDTH)
             rest == SubSeq(input, n + 1, Len(input))
         IN UNION {HashTraceRuns_from_zero_state(
                       q.perm, q.state, rest,
                       [inputs |-> Append(rows.inputs, absorbed),
                        outputs |-> Append(rows.outputs, q.state)]) :
                   q \in Permute(p, absorbed)}

\* the loop over input.chunks(POSEIDON2_RATE): the chunk overwrites the first
\* cells of the state, the state is pushed as a permutation input and then
\* permuted; generate_vectorized_trace_rows fills in each permutation's output
RECURSIVE HashTraceRuns(_, _, _, _)
HashTraceRuns(p, state, input, rows) ==
    IF input = <<>> THEN {[perm |-> p, state |-> state, rows |-> rows]}
    ELSE LET n == IF Len(input) < POSEIDON2_RATE THEN Len(input) ELSE POSEIDON2_RATE
             absorbed == SubSeq(input, 1, n) \o SubSeq(state, n + 1, POSEIDON2_WIDTH)
             rest == SubSeq(input, n + 1, Len(input))
         IN UNION {HashTraceRuns(
                       q.perm, q.state, rest,
                       [inputs |-> Append(rows.inputs, absorbed),
                        outputs |-> Append(rows.outputs, q.state)]) :
                   q \in Permute(p, absorbed)}

HashTraceErr(p, error) ==
    [tag |-> "Err", error |-> error, trace |-> NoHashTrace, digest |-> <<>>,
     num_permutations |-> 0, perm |-> p]

\* build_poseidon2_hash_trace with the empty input alone refused
build_poseidon2_hash_trace_any_length(p, input) ==
    IF input = <<>> THEN {HashTraceErr(p, "must be non-empty")}
    ELSE {[tag |-> "Ok", error |-> "", trace |-> q.rows,
           digest |-> SubSeq(q.state, 1, POSEIDON2_OUT),
           num_permutations |-> Len(q.rows.inputs), perm |-> q.perm] :
             q \in HashTraceRuns(p, ZeroState, input, NoHashTrace)}

\* every run of build_poseidon2_hash_trace under the permutation known so far
build_poseidon2_hash_trace(p, input) ==
    IF input = <<>> THEN {HashTraceErr(p, "must be non-empty")}
    ELSE IF Len(input) # POSEIDON2_INPUT_LEN
    THEN {HashTraceErr(p, "length does not match expected")}
    ELSE {[tag |-> "Ok", error |-> "", trace |-> q.rows,
           digest |-> SubSeq(q.state, 1, POSEIDON2_OUT),
           num_permutations |-> Len(q.rows.inputs), perm |-> q.perm] :
             q \in HashTraceRuns(p, ZeroState, input, NoHashTrace)}

\* BabyBear::from_u32(1 << 31), the shift being the bit length of an element
two_pow_31 == (2 ^ DIGEST_SHIFT) % BabyBearP

\* Poseidon2HashAir::eval on the one row of the trace, which is its last:
\* the inner permutation AIR, then the constraints on the public values
\* [inputs || digest || packed]
Poseidon2HashAirEval(p, hash_trace, public) ==
    LET public_inputs == SubSeq(public, 1, POSEIDON2_INPUT_LEN)
        public_digest == SubSeq(public, POSEIDON2_INPUT_LEN + 1,
                                POSEIDON2_INPUT_LEN + POSEIDON2_OUT)
        public_packed == SubSeq(public, POSEIDON2_INPUT_LEN + POSEIDON2_OUT + 1,
                                Len(public))
        output == hash_trace.outputs[POSEIDON2_NUM_PERMS]
    IN /\ \A perm_idx \in 1..POSEIDON2_NUM_PERMS :
            /\ hash_trace.inputs[perm_idx] \in DOMAIN p
            /\ hash_trace.outputs[perm_idx] = p[hash_trace.inputs[perm_idx]]
       /\ \A i \in 0..(POSEIDON2_RATE - 1) :
            hash_trace.inputs[1][i + 1] = public_inputs[i + 1]
       /\ \A i \in POSEIDON2_RATE..(POSEIDON2_WIDTH - 1) :
            hash_trace.inputs[1][i + 1] = 0
       /\ \A perm_idx \in 1..(POSEIDON2_NUM_PERMS - 1), i \in 0..(POSEIDON2_WIDTH - 1) :
            LET msg_index == perm_idx * POSEIDON2_RATE + i
            IN hash_trace.inputs[perm_idx + 1][i + 1]
                  = IF i < POSEIDON2_RATE /\ msg_index < POSEIDON2_INPUT_LEN
                    THEN public_inputs[msg_index + 1]
                    ELSE hash_trace.outputs[perm_idx][i + 1]
       /\ \A i \in 1..POSEIDON2_OUT : output[i] = public_digest[i]
       /\ (output[1] + output[2] * two_pow_31) % BabyBearP = public_packed[1]
       /\ (output[3] + output[4] * two_pow_31) % BabyBearP = public_packed[2]
       /\ output[5] = public_packed[3]

\* the points hashed as R and pk, and the messages hashed after them
HashPoints == {AffineGenerator, AffineDouble(AffineGenerator), AffineNegate(AffineGenerator)}
HashMessages == UNION {[1..n -> BabyBear] : n \in 0..(MaxMsgLen + 2)}
HashInputs ==
    {<<>>} \cup {encode_point(r) \o encode_point(pk) \o msg :
                    r \in HashPoints, pk \in HashPoints, msg \in HashMessages}

\* the public values given to the prover and the verifier: the input and the
\* digest of the trace with any packed values, and the same with one element
\* of the input or of the digest replaced
HashPublicValues(input, digest) ==
    {input \o digest \o packed : packed \in [1..POSEIDON2_PACKED_LIMBS -> BabyBear]}
        \cup {[input \o digest \o <<(digest[1] + digest[2] * two_pow_31) % BabyBearP,
                                    (digest[3] + digest[4] * two_pow_31) % BabyBearP,
                                    digest[5]>>
                  EXCEPT ![k] = (@ + 1) % BabyBearP] :
                 k \in 1..(POSEIDON2_INPUT_LEN + POSEIDON2_OUT)}

\* build_poseidon2_hash_trace(input)
CallBuildPoseidon2HashTrace ==
    /\ call = NoCall
    /\ \E input \in HashInputs :
         \E out \in build_poseidon2_hash_trace(perm, input) :
            /\ call' = [fn |-> "build_poseidon2_hash_trace", args |-> <<input>>]
            /\ ret' = [tag |-> out.tag, error |-> out.error, trace |-> out.trace,
                       digest |-> out.digest, num_permutations |-> out.num_permutations]
            /\ perm' = out.perm
    /\ UNCHANGED program_vars

\* proving and verifying the built trace under Poseidon2HashAir with public
\* values of the caller's choice
CallPoseidon2HashAir ==
    /\ call.fn = "build_poseidon2_hash_trace"
    /\ ret.tag = "Ok"
    /\ \E public \in HashPublicValues(call.args[1], ret.digest) :
         /\ call' = [fn |-> "Poseidon2HashAir::eval",
                     args |-> <<call.args[1], ret.trace, ret.digest, public>>]
         /\ ret' = [tag |-> IF Poseidon2HashAirEval(perm, ret.trace, public)
                            THEN "Accept" ELSE "Reject"]
    /\ UNCHANGED <<perm, program_vars>>

NextHash ==
    \/ CallBuildPoseidon2HashTrace
    \/ CallPoseidon2HashAir

SpecHash == Init /\ [][NextHash]_vars

(***************************************************************************)
(* The scalar multiplication trace (circuit/src/scalar_mul_air.rs).        *)
(***************************************************************************)
\* the column constants of the scalar multiplication trace
SM ==
    [ACC_X_START |-> 0,
     BASE_X_START |-> 2 * COORD_LIMBS,
     ADD_X_START |-> 4 * COORD_LIMBS,
     DOUBLE_X_START |-> 6 * COORD_LIMBS,
     ADD_NUM_START |-> 8 * COORD_LIMBS,
     DOUBLE_NUM_START |-> 12 * COORD_LIMBS,
     BIT_COL |-> 16 * COORD_LIMBS,
     ACC_INF_COL |-> 16 * COORD_LIMBS + 1,
     NUM_COLUMNS |-> 16 * COORD_LIMBS + 2]

\* one pass of the row loop of build_scalar_mul_trace: the row written and
\* the accumulator carried to the next row, or the panic of an inverse() of
\* zero; the chord intermediates are written whenever acc is not the identity
ScalarMulRow(bit, acc, current) ==
    LET acc_plus == IF acc.is_infinity THEN current ELSE CircuitAdd(acc, current)
        base_double == CircuitDouble(current)
        points == write_point(
                      write_point(
                          write_point(
                              write_point(ZeroRow(SM.NUM_COLUMNS), SM.ACC_X_START, acc),
                              SM.BASE_X_START, current),
                          SM.ADD_X_START, acc_plus),
                      SM.DOUBLE_X_START, base_double)
        flagged == [points EXCEPT ![SM.ACC_INF_COL + 1] = IF acc.is_infinity THEN 1 ELSE 0]
        added == IF ~acc.is_infinity
                 THEN fill_add_intermediates(flagged, SM.ADD_NUM_START, acc, current)
                 ELSE [panic |-> FALSE, row |-> flagged]
        doubled == fill_double_intermediates(added.row, SM.DOUBLE_NUM_START, current)
    IN IF added.panic \/ doubled.panic
       THEN [panic |-> TRUE, row |-> <<>>, acc |-> acc]
       ELSE [panic |-> FALSE,
             row |-> [doubled.row EXCEPT ![SM.BIT_COL + 1] = IF bit THEN 1 ELSE 0],
             acc |-> IF bit THEN acc_plus ELSE acc]

\* the rows from row_idx on, each pass carrying acc and current to the next
RECURSIVE ScalarMulRows(_, _, _, _, _)
ScalarMulRows(scalar_bits, acc, current, row_idx, num_rows) ==
    IF row_idx = num_rows THEN [panic |-> FALSE, rows |-> <<>>]
    ELSE Only({
        IF step.panic THEN [panic |-> TRUE, rows |-> <<>>]
        ELSE Only({IF rest.panic THEN rest
                   ELSE [panic |-> FALSE, rows |-> <<step.row>> \o rest.rows] :
                   rest \in {ScalarMulRows(scalar_bits, step.acc, CircuitDouble(current),
                                           row_idx + 1, num_rows)}}) :
        step \in {ScalarMulRow(
                     IF row_idx < Len(scalar_bits) THEN scalar_bits[row_idx + 1] ELSE FALSE,
                     acc, current)}})

\* build_scalar_mul_trace: the rows, or the panic of an inverse() of zero
build_scalar_mul_trace(base, scalar_bits) ==
    ScalarMulRows(scalar_bits, infinity, base, 0, next_power_of_two(Len(scalar_bits)))

\* build_scalar_mul_trace(&CircuitPoint::from_affine(&base), &scalar_to_bits(&k))
\* for a base point other than the identity and a scalar of the field
CallBuildScalarMulTrace ==
    /\ call = NoCall
    /\ \E base \in CurvePoints \ {INFINITY}, k \in ScalarFieldSet :
         \E built \in {build_scalar_mul_trace(from_affine(base), scalar_to_bits(k))} :
            /\ call' = [fn |-> "build_scalar_mul_trace", args |-> <<base, k>>]
            /\ ret' = IF built.panic THEN [tag |-> "Panic", rows |-> <<>>]
                      ELSE [tag |-> "Ok", rows |-> built.rows]
    /\ UNCHANGED <<perm, program_vars>>

NextScalarMulTrace == CallBuildScalarMulTrace

SpecScalarMulTrace == Init /\ [][NextScalarMulTrace]_vars

(***************************************************************************)
(* Properties of signing and verification.                                 *)
(***************************************************************************)
\* C1: whenever sign returned a signature, verifying it under the signer's
\* verifying key and the signed message returns Ok(true)
SignVerifyRoundTrip ==
    (pc = "verified" /\ verify_key = signing_key /\ verify_message = message)
        => verify_result = "Ok(true)"

SignVerifyRoundTripWitness ==
    /\ pc = "verified"
    /\ verify_key = signing_key
    /\ verify_message = message
    /\ message # <<>>
    /\ verify_result = "Ok(true)"
    /\ signature.s # ScalarZERO

\* C10: a signature does not verify for a message other than the signed one
VerifyRejectsWrongMessage ==
    (pc = "verified" /\ verify_key = signing_key /\ verify_message # message)
        => verify_result = "Ok(false)"

\* C10, second half: nor under the verifying key of another signing key
VerifyRejectsWrongKey ==
    (pc = "verified" /\ verify_key # signing_key) => verify_result = "Ok(false)"

(***************************************************************************)
(* Properties of the circuit.                                              *)
(***************************************************************************)
\* the coefficients of a point as the trace and the public values hold them
PointCells(point) == point.x \o point.y

\* the cells of one point of a row
RowPoint(row, x_start) == [k \in 1..(2 * COORD_LIMBS) |-> row[x_start + k]]

\* the integer whose i-th bit is the cell of column col of row i, modulo the
\* group order, as a scalar
RECURSIVE BitColumnValue(_, _, _)
BitColumnValue(rows, col, i) ==
    IF i > Len(rows) THEN 0
    ELSE (rows[i][col + 1] + 2 * BitColumnValue(rows, col, i + 1)) % ModulusInt
BitColumnScalar(rows, col) == from_canonical_limbs(IntToLimbs(BitColumnValue(rows, col, 1)))

\* the point a pair of public coordinates stands for
PublicPoint(cells) ==
    [x |-> SubSeq(cells, 1, COORD_LIMBS),
     y |-> SubSeq(cells, COORD_LIMBS + 1, 2 * COORD_LIMBS),
     is_infinity |-> FALSE]

\* C2: a trace that satisfies every constraint for the public inputs (pk, R)
\* has R = s * G + e' * pk for the integers s and e' of its bit columns
ConstraintsImplySchnorrEquation ==
    accepted = "Accept" =>
        \E pk \in {PublicPoint(SubSeq(public_values, 1, SCHNORR_BASE_PUBLIC))},
           s \in {BitColumnScalar(trace.rows, DS.S_BIT_COL)},
           e \in {BitColumnScalar(trace.rows, DS.E_BIT_COL)} :
            SubSeq(public_values, SCHNORR_BASE_PUBLIC + 1, SCHNORR_PUBLIC_VALUES)
                = PointCells(from_affine(double_scalar_mul_basepoint(s, e, pk)))

\* C3: a trace that satisfies the constraints has the identity as the
\* accumulator of its first row: acc_is_infinity = 1 and zero coordinates
FirstRowAccumulatorIsIdentity ==
    accepted = "Accept" =>
        /\ trace.rows[1][DS.ACC_INF_COL + 1] = 1
        /\ RowPoint(trace.rows[1], DS.ACC_X_START) = PointCells(infinity)

\* C4: the trace build_schnorr_trace returns for the witness of a signature
\* that verify accepts satisfies every constraint on every row, with the
\* preprocessed table of its height and the public values [pk, R]
HonestTraceSatisfiesConstraints ==
    (pc = "proved" /\ verify_result = "Ok(true)") => accepted = "Accept"

HonestTraceSatisfiesConstraintsWitness ==
    /\ pc = "proved"
    /\ verify_result = "Ok(true)"
    /\ accepted = "Accept"
    /\ \E i \in 1..Len(trace.rows) :
         trace.rows[i][DS.S_BIT_COL + 1] = 1 /\ trace.rows[i][DS.E_BIT_COL + 1] = 1

\* C6: the accumulator cells of the last row of the trace built for the
\* scalars s and neg_e and the key pk are those of s * G + neg_e * pk
LastRowHoldsDoubleScalarProduct ==
    (pc \in {"built", "built_literal"} /\ trace.tag = "Ok") =>
        \E s \in {to_scalar_field(witness.s)},
           neg_e \in {neg_mod(to_scalar_field(witness.challenge))},
           pk \in {to_affine(witness.public_key)} :
            RowPoint(trace.rows[Len(trace.rows)], DS.ACC_X_START)
                = PointCells(from_affine(double_scalar_mul_basepoint(s, neg_e, pk)))

LastRowHoldsDoubleScalarProductWitness ==
    /\ pc = "built_literal"
    /\ trace.tag = "Ok"
    /\ BitColumnValue(trace.rows, DS.S_BIT_COL, 1) = ModulusInt - 1
    /\ BitColumnValue(trace.rows, DS.E_BIT_COL, 1) > 1

\* C7: build_schnorr_trace returns no trace for the witness of a signature
\* that verify rejects
RejectedSignatureHasNoTrace ==
    (pc = "built" /\ verify_result = "Ok(false)") => trace.tag # "Ok"

\* C8: row i of the preprocessed trace holds the coefficients of 2^i * G, for
\* every height and whatever the witness
PreprocessedRowsAreGeneratorPowers ==
    \A i \in 1..Len(preprocessed) :
        \E power \in {from_canonical_limbs(IntToLimbs((2 ^ (i - 1)) % ModulusInt))} :
            preprocessed[i] = PointCells(from_affine(scalar_mul(AffineGenerator, power)))

PreprocessedRowsAreGeneratorPowersWitness ==
    /\ pc = "air"
    /\ Len(preprocessed) = next_power_of_two(NUM_WORDS * WORD_BITS)

\* the first-row P cells are the first half of the public values and the
\* last-row accumulator cells the second half
BoundaryInOrder ==
    /\ RowPoint(trace.rows[1], DS.PK_X_START) = SubSeq(public_values, 1, SCHNORR_BASE_PUBLIC)
    /\ RowPoint(trace.rows[Len(trace.rows)], DS.ACC_X_START)
           = SubSeq(public_values, SCHNORR_BASE_PUBLIC + 1, SCHNORR_PUBLIC_VALUES)

\* C9, as claimed: the public values are read as [pk, R], and an honest trace
\* fails once pk and R are exchanged in them
SwappedPublicValuesFail ==
    /\ accepted = "Accept" => BoundaryInOrder
    /\ pc = "swapped" => accepted = "Reject"

\* C9: the public values are read as [pk, R]: a built trace passes exactly
\* when its first-row P cells are values 0..15 and its last-row accumulator
\* cells are values 16..31, and an honest trace fails once pk and R are
\* exchanged in them, whenever pk and R differ
PublicValuesReadInOrder ==
    /\ accepted = "Accept" => BoundaryInOrder
    /\ (pc \in {"proved", "swapped"} /\ BoundaryInOrder) => accepted = "Accept"
    /\ (pc = "swapped" /\ witness.public_key # witness.r) => accepted = "Reject"

PublicValuesReadInOrderWitness ==
    /\ pc = "swapped"
    /\ witness.public_key # witness.r
    /\ accepted = "Reject"

\* the cells of row `row` that no constraint with a non-zero selector reads:
\* the new accumulator and the intermediates of its addition when both bits
\* are 0, those intermediates when the accumulator is the identity, and the
\* accumulator of the first row when a bit of that row is 1
SwitchedOff(rows, row, col) ==
    LET cells == rows[row + 1]
        add_sel == 1 - (1 - cells[DS.S_BIT_COL + 1]) * (1 - cells[DS.E_BIT_COL + 1])
        acc_inf == cells[DS.ACC_INF_COL + 1]
    IN \/ /\ col \in DS.ADD_X_START..(DS.ADD_X_START + 2 * COORD_LIMBS - 1)
          /\ add_sel = 0
       \/ /\ col \in DS.ADD_NUM_START..(DS.ADD_NUM_START + 4 * COORD_LIMBS - 1)
          /\ (1 - acc_inf) * add_sel = 0
       \/ /\ col \in DS.ACC_X_START..(DS.ACC_X_START + 2 * COORD_LIMBS - 1)
          /\ row = 0
          /\ add_sel = 1

MontgomeryForm(v) == IntToLimbs((v * TotalMod) % ModulusInt)

\* the scalar in [0, q) that the stored limbs stand for
CanonicalValue(limbs) == CHOOSE v \in 0..(ModulusInt - 1) : MontgomeryForm(v) = limbs

\* C11: for a key, a message and a commitment R, a response s' other than a
\* response s that verifies does not verify
VerifyingResponseIsUnique ==
    (call.fn = "verify_again" /\ call.before = "Ok(true)") => ret.tag = "Ok(false)"

VerifyingResponseIsUniqueWitness ==
    /\ call.fn = "verify_again"
    /\ call.before = "Ok(true)"
    /\ ret.tag = "Ok(false)"
    /\ call.args[2] # <<>>
    /\ call.args[4] # ScalarZERO

\* C12: hash_challenge returns Err(InvalidPoint) exactly when R or pk is the
\* point at infinity and Ok(scalar) otherwise, for every message length, and
\* verify returns Err(InvalidPoint) in the same cases and Ok(true) or
\* Ok(false) otherwise
InvalidPointExactlyAtInfinity ==
    /\ call.fn = "hash_challenge" =>
          IF call.args[1].is_infinity \/ call.args[2].is_infinity
          THEN ret.tag = "Err"
          ELSE ret.tag = "Ok" /\ ret.value \in StoredScalars
    /\ call.fn \in {"verify", "verify_again"} =>
          IF call.args[1].is_infinity \/ call.args[3].is_infinity
          THEN ret.tag = "Err(InvalidPoint)"
          ELSE ret.tag \in {"Ok(true)", "Ok(false)"}

InvalidPointExactlyAtInfinityWitness ==
    /\ call.fn = "hash_challenge"
    /\ ~call.args[1].is_infinity
    /\ call.args[2].is_infinity
    /\ Len(call.args[3]) = MaxMsgLen
    /\ ret.tag = "Err"

\* C13: double_scalar_mul_basepoint_affine(a, b, P) is a * G + b * P, the
\* products by the double-and-add scalar_mul and the sum by point addition
DoubleScalarMulIsSumOfProducts ==
    call.fn = "double_scalar_mul_basepoint_affine" =>
        ret.value = AffineAdd(scalar_mul(AffineGenerator, call.args[1]),
                              scalar_mul(call.args[3], call.args[2]))

DoubleScalarMulIsSumOfProductsWitness ==
    /\ call.fn = "double_scalar_mul_basepoint_affine"
    /\ CanonicalValue(call.args[1]) >= WINDOW_SIZE
    /\ CanonicalValue(call.args[2]) >= WINDOW_SIZE
    /\ ~call.args[3].is_infinity
    /\ call.args[3] # AffineGenerator
    /\ ~ret.value.is_infinity

\* C14: the windowed scalar_mul_windowed(P, k) returns the point that the
\* bit-serial scalar_mul(P, k) returns
WindowedEqualsDoubleAndAdd ==
    call.fn = "scalar_mul_windowed" =>
        ret.value = GroupScalarMul(call.args[1], call.args[2], call.args[3])

WindowedEqualsDoubleAndAddWitness ==
    /\ call.fn = "scalar_mul_windowed"
    /\ call.args[1] = "Projective"
    /\ ~GroupIsIdentity("Projective", call.args[2])
    /\ CanonicalValue(call.args[3]) > GROUP_TABLE_SIZE
    /\ CanonicalValue(call.args[3]) % GROUP_TABLE_SIZE > 2
    /\ ~GroupIsIdentity("Projective", ret.value)

\* the n-fold sum P + ... + P
RECURSIVE RepeatedSum(_, _, _)
RepeatedSum(g, p, n) ==
    IF n = 0 THEN GroupIdentity(g)
    ELSE Only({GroupAdd(g, sum, p) : sum \in {RepeatedSum(g, p, n - 1)}})

\* C15: scalar_mul(P, k) is the k-fold sum of P, the identity for k = 0 (the
\* scalar that q reduces to)
ScalarMulIsRepeatedSum ==
    call.fn = "scalar_mul" =>
        ret.value = RepeatedSum(call.args[1], call.args[2], CanonicalValue(call.args[3]))

ScalarMulIsRepeatedSumWitness ==
    /\ call.fn = "scalar_mul"
    /\ call.args[1] = "Affine"
    /\ ~call.args[2].is_infinity
    /\ CanonicalValue(call.args[3]) = ModulusInt - 1
    /\ ret.value = AffineNegate(call.args[2])

\* C16: the stored limbs of every scalar that from_canonical_u64, +, -,
\* negation, *, /, inverse, try_inverse, halve and sampling return are below q
StoredLimbsStayCanonical ==
    (/\ call.fn \in {"from_canonical_u64", "add", "sub", "neg", "mul", "div", "inverse",
                     "try_inverse", "halve", "sample"}
     /\ ret.tag \in {"Value", "Some", "Return"})
        => LimbsToInt(ret.value) < ModulusInt

StoredLimbsStayCanonicalWitness ==
    /\ call.fn = "add"
    /\ LimbsToInt(call.args[1]) + LimbsToInt(call.args[2]) > ModulusInt
    /\ LimbsToInt(ret.value) < ModulusInt

InverseOfZeroAborts ==
    /\ (call.fn = "try_inverse" /\ call.args[1] = ScalarZERO) => ret.tag = "None"
    /\ (call.fn = "inverse" /\ call.args[1] = ScalarZERO) => ret.tag = "Abort"
    /\ (call.fn = "div" /\ call.args[2] = ScalarZERO) => ret.tag = "Abort"

\* the value of the limbs in base 2^LIMB_BITS, least significant first
RECURSIVE LimbsValue(_, _)
LimbsValue(limbs, i) ==
    IF i > Len(limbs) THEN 0 ELSE limbs[i] + (2 ^ LIMB_BITS) * LimbsValue(limbs, i + 1)

\* C19: from_scalar_field(x) yields SCALAR_LIMBS limbs below 2^LIMB_BITS whose
\* little-endian value is x, and to_scalar_field of them is x
CircuitScalarRoundTrip ==
    call.fn = "from_scalar_field" =>
        /\ Len(ret.value) = SCALAR_LIMBS
        /\ \A i \in 1..SCALAR_LIMBS : ret.value[i] < 2 ^ LIMB_BITS
        /\ LimbsValue(ret.value, 1) = CanonicalValue(call.args[1])
        /\ ret.back = call.args[1]

\* a scalar whose second limb takes a set bit from each of two words
CircuitScalarRoundTripWitness ==
    /\ call.fn = "from_scalar_field"
    /\ ret.value[2] = 2 ^ LIMB_BITS - 1
    /\ ret.back = call.args[1]

\* C20: the encoding of a point is the coefficients of x and of y, unchanged
\* in value, and no other point has the same encoding
EncodingKeepsCoefficients ==
    call.fn = "encode_point" =>
        /\ ret.value = PointCells(call.args[1])
        /\ \A other \in CurvePoints \ {INFINITY, call.args[1]} :
              encode_point(other) # ret.value

(***************************************************************************)
(* Properties of the rows of the double-scalar trace.                      *)
(***************************************************************************)
\* 1 when a bit of the row is set, 0 when both are 0
RowAddSel(row) ==
    IF row[DS.S_BIT_COL + 1] = 0 /\ row[DS.E_BIT_COL + 1] = 0 THEN 0 ELSE 1

\* the new accumulator carried to the next row, or the accumulator kept
AccumulatorCarried(row, next_row) ==
    RowPoint(next_row, DS.ACC_X_START)
        = IF RowAddSel(row) = 1 THEN RowPoint(row, DS.ADD_X_START)
          ELSE RowPoint(row, DS.ACC_X_START)

\* the doubled P carried to the next row
BaseCarried(row, next_row) ==
    RowPoint(next_row, DS.PK_X_START) = RowPoint(row, DS.PK_DOUBLE_X_START)

\* acc_is_infinity' = acc_is_infinity * (1 - s_bit) * (1 - e_bit)
InfinityFlagCarried(row, next_row) ==
    next_row[DS.ACC_INF_COL + 1] = row[DS.ACC_INF_COL + 1] * (1 - RowAddSel(row))

\* C21: in a trace that satisfies the constraints, every row but the last
\* carries to the next row the new accumulator when a bit is set and the
\* accumulator when none is, the doubled P, and acc_is_infinity times
\* (1 - s_bit)(1 - e_bit); the last row carries nothing to the first: the
\* honest trace is accepted although none of the three holds there
TransitionsCarryAccumulator ==
    /\ accepted = "Accept" =>
          \A i \in 1..(Len(trace.rows) - 1) :
              /\ AccumulatorCarried(trace.rows[i], trace.rows[i + 1])
              /\ BaseCarried(trace.rows[i], trace.rows[i + 1])
              /\ InfinityFlagCarried(trace.rows[i], trace.rows[i + 1])
    /\ (pc = "proved" /\ accepted = "Accept") =>
          ~BaseCarried(trace.rows[Len(trace.rows)], trace.rows[1])

\* an accepted trace with a cell overwritten, whose last row carries neither
\* the accumulator nor P nor the flag to the first
TransitionsCarryAccumulatorWitness ==
    /\ pc = "mutated"
    /\ accepted = "Accept"
    /\ \E i \in 1..(Len(trace.rows) - 1) : RowAddSel(trace.rows[i]) = 1
    /\ \E i \in 1..(Len(trace.rows) - 1) : RowAddSel(trace.rows[i]) = 0
    /\ ~AccumulatorCarried(trace.rows[Len(trace.rows)], trace.rows[1])
    /\ ~BaseCarried(trace.rows[Len(trace.rows)], trace.rows[1])
    /\ ~InfinityFlagCarried(trace.rows[Len(trace.rows)], trace.rows[1])

\* the point whose coefficients the cells are
CellsPoint(cells) ==
    IF cells = PointCells(infinity) THEN infinity ELSE PublicPoint(cells)

\* the addend of a row by its bits: the zero coordinates, the preprocessed
\* G_i, P, or the sum of P and G_i
SelectedAddend(row, preprocessed_row) ==
    IF row[DS.S_BIT_COL + 1] = 0 /\ row[DS.E_BIT_COL + 1] = 0
    THEN PointCells(infinity)
    ELSE IF row[DS.S_BIT_COL + 1] = 1 /\ row[DS.E_BIT_COL + 1] = 0
    THEN RowPoint(preprocessed_row, GS_PREP.BASE_X_START)
    ELSE IF row[DS.S_BIT_COL + 1] = 0 /\ row[DS.E_BIT_COL + 1] = 1
    THEN RowPoint(row, DS.PK_X_START)
    ELSE PointCells(CircuitAdd(CellsPoint(RowPoint(row, DS.PK_X_START)),
                               CellsPoint(RowPoint(preprocessed_row, GS_PREP.BASE_X_START))))

\* the addend cells of every row are those of the addend its bits select
AddendsSelected(rows, preprocessed_rows) ==
    \A i \in 1..Len(rows) :
        RowPoint(rows[i], DS.ADDEND_X_START) = SelectedAddend(rows[i], preprocessed_rows[i])

\* C22: in a trace that satisfies the constraints the addend of every row is
\* the one its bits select (zero coordinates, G_i, P, P + G_i), and the
\* addend build_double_scalar_trace writes on every row is that point
SelectionAdmitsOneAddend ==
    /\ accepted = "Accept" => AddendsSelected(trace.rows, preprocessed)
    /\ (pc = "built" /\ trace.tag = "Ok") =>
          AddendsSelected(trace.rows, build_gs_preprocessed_trace(Len(trace.rows)))

\* an accepted trace with a cell overwritten that has a row of each bit pair
SelectionAdmitsOneAddendWitness ==
    /\ pc = "mutated"
    /\ accepted = "Accept"
    /\ AddendsSelected(trace.rows, preprocessed)
    /\ \A pair \in {<<0, 0>>, <<1, 0>>, <<0, 1>>, <<1, 1>>} :
          \E i \in 1..Len(trace.rows) :
              /\ trace.rows[i][DS.S_BIT_COL + 1] = pair[1]
              /\ trace.rows[i][DS.E_BIT_COL + 1] = pair[2]

\* the chord addition of the accumulator and the addend, read from one row
ChordHolds(row) ==
    enforce_add_constraints_with_base(
        1, read_fp8(row, DS.ACC_X_START), read_fp8(row, DS.ACC_Y_START),
        read_fp8(row, DS.ADDEND_X_START), read_fp8(row, DS.ADDEND_Y_START),
        read_fp8(row, DS.ADD_NUM_START), read_fp8(row, DS.ADD_DEN_START),
        read_fp8(row, DS.ADD_INV_START), read_fp8(row, DS.ADD_SLOPE_START),
        read_fp8(row, DS.ADD_X_START), read_fp8(row, DS.ADD_Y_START))

\* the columns of the chord intermediates num, den, inv and slope
ChordColumns == DS.ADD_NUM_START..(DS.ADD_SLOPE_START + COORD_LIMBS - 1)

\* the row whose cell was overwritten
MutatedRow == trace.rows[mutation.row + 1]

\* C23: the chord constraints of the accumulator bind exactly the rows with
\* acc_is_infinity = 0 and a set bit; on a row with acc_is_infinity = 1 and a
\* set bit add_out is the addend; the accumulator is on the curve where
\* acc_is_infinity = 0; and the honest trace is accepted although the zero
\* coordinates of its first, infinite accumulator are not on the curve
ChordGuardedOffAtInfinity ==
    /\ accepted = "Accept" =>
          \A i \in 1..Len(trace.rows) :
              /\ (trace.rows[i][DS.ACC_INF_COL + 1] = 0 /\ RowAddSel(trace.rows[i]) = 1)
                     => ChordHolds(trace.rows[i])
              /\ (trace.rows[i][DS.ACC_INF_COL + 1] = 1 /\ RowAddSel(trace.rows[i]) = 1)
                     => RowPoint(trace.rows[i], DS.ADD_X_START)
                            = RowPoint(trace.rows[i], DS.ADDEND_X_START)
              /\ trace.rows[i][DS.ACC_INF_COL + 1] = 0
                     => enforce_on_curve(1, trace.rows[i], DS.ACC_X_START, DS.ACC_Y_START)
    /\ (pc = "mutated" /\ mutation.col \in ChordColumns) =>
          (accepted = "Accept"
              <=> (MutatedRow[DS.ACC_INF_COL + 1] = 1 \/ RowAddSel(MutatedRow) = 0))
    /\ pc = "proved" =>
          /\ accepted = "Accept"
          /\ trace.rows[1][DS.ACC_INF_COL + 1] = 1
          /\ RowPoint(trace.rows[1], DS.ACC_X_START) = PointCells(infinity)
          /\ ~enforce_on_curve(1, trace.rows[1], DS.ACC_X_START, DS.ACC_Y_START)

\* an accepted trace whose overwritten chord cell is on a row with an
\* infinite accumulator and a set bit, next to rows where the chord binds
ChordGuardedOffAtInfinityWitness ==
    /\ pc = "mutated"
    /\ accepted = "Accept"
    /\ mutation.col \in ChordColumns
    /\ MutatedRow[DS.ACC_INF_COL + 1] = 1
    /\ RowAddSel(MutatedRow) = 1
    /\ ~ChordHolds(MutatedRow)
    /\ \E i \in 1..Len(trace.rows) :
          /\ trace.rows[i][DS.ACC_INF_COL + 1] = 0
          /\ RowAddSel(trace.rows[i]) = 1

\* C24: the trace of the witness of a signature that verify accepts is built
\* to its end, no inverse of zero being taken on the way
AcceptedWitnessNeverInvertsZero ==
    (pc = "built" /\ verify_result = "Ok(true)") => trace.tag = "Ok"

\* the integer spelled by the cells of column col on the first n rows, least
\* significant first, modulo the group order
RECURSIVE PrefixValue(_, _, _)
PrefixValue(rows, col, n) ==
    IF n = 0 THEN 0
    ELSE (PrefixValue(rows, col, n - 1) + rows[n][col + 1] * 2 ^ (n - 1)) % ModulusInt

\* the point the first n rows add up to: the generator times the prefix of
\* the s_bit column plus the first row's P times the prefix of the e_bit column
RunningAccumulator(rows, n) ==
    AffineAdd(scalar_mul(AffineGenerator,
                         from_canonical_limbs(IntToLimbs(PrefixValue(rows, DS.S_BIT_COL, n)))),
              scalar_mul(to_affine(CellsPoint(RowPoint(rows[1], DS.PK_X_START))),
                         from_canonical_limbs(IntToLimbs(PrefixValue(rows, DS.E_BIT_COL, n)))))

\* C28: in a built trace the acc_is_infinity cell of a row is 1 exactly when
\* no earlier row has a set bit, it never returns from 0 to 1, and it is 1
\* exactly when the point accumulated over the earlier rows is the identity
InfinityFlagTracksAccumulator ==
    (pc = "built" /\ trace.tag = "Ok") =>
        \A i \in 1..Len(trace.rows) :
            /\ trace.rows[i][DS.ACC_INF_COL + 1] \in {0, 1}
            /\ trace.rows[i][DS.ACC_INF_COL + 1] = 1
                  <=> \A j \in 1..(i - 1) : RowAddSel(trace.rows[j]) = 0
            /\ (i < Len(trace.rows) /\ trace.rows[i][DS.ACC_INF_COL + 1] = 0)
                  => trace.rows[i + 1][DS.ACC_INF_COL + 1] = 0
            /\ trace.rows[i][DS.ACC_INF_COL + 1] = 1
                  <=> RunningAccumulator(trace.rows, i - 1).is_infinity

\* a built trace whose flag is 1 on the first two rows and 0 from a later
\* row on, rows without a set bit following the first addition
InfinityFlagTracksAccumulatorWitness ==
    /\ pc = "built"
    /\ trace.tag = "Ok"
    /\ trace.rows[2][DS.ACC_INF_COL + 1] = 1
    /\ \E i \in 3..Len(trace.rows) :
          /\ trace.rows[i][DS.ACC_INF_COL + 1] = 0
          /\ RowAddSel(trace.rows[i]) = 0
          /\ \E j \in (i + 1)..Len(trace.rows) : RowAddSel(trace.rows[j]) = 1

(***************************************************************************)
(* Properties of the scalar field's halving                                *)
(***************************************************************************)
\* C29: halve returns the element whose double is its argument, for even and
\* for odd stored limbs
HalveDoublesBack ==
    call.fn = "halve" => add_mod(ret.value, ret.value) = call.args[1]

(***************************************************************************)
(* Properties of the Poseidon2 hash sub-circuit                            *)
(***************************************************************************)
\* the input of permutation j (from 0) of a hash trace is chained: cell i is
\* element RATE * j + i of the input while there is one and i < RATE, and
\* otherwise cell i of the previous output, zero for the first permutation
InputsChained(hash_trace, input) ==
    \A j \in 0..(POSEIDON2_NUM_PERMS - 1), i \in 0..(POSEIDON2_WIDTH - 1) :
        hash_trace.inputs[j + 1][i + 1]
            = IF i < POSEIDON2_RATE /\ POSEIDON2_RATE * j + i < POSEIDON2_INPUT_LEN
              THEN input[POSEIDON2_RATE * j + i + 1]
              ELSE IF j = 0 THEN 0 ELSE hash_trace.outputs[j][i + 1]

\* C25: the digest of a built hash trace is the digest of the padding-free
\* sponge over the same input, its permutation inputs are chained as the AIR
\* demands, and the AIR accepts the trace only under its input and digest
HashTraceIsSpongeDigest ==
    /\ (call.fn = "build_poseidon2_hash_trace" /\ ret.tag = "Ok") =>
          /\ ret.num_permutations = POSEIDON2_NUM_PERMS
          /\ Len(ret.trace.inputs) = POSEIDON2_NUM_PERMS
          /\ InputsChained(ret.trace, call.args[1])
          /\ \A q \in SpongeRuns(perm, ZeroState, call.args[1]) :
                 /\ q.perm = perm
                 /\ ret.digest = SubSeq(q.state, 1, POSEIDON2_OUT)
    /\ (call.fn = "Poseidon2HashAir::eval" /\ ret.tag = "Accept") =>
          /\ SubSeq(call.args[4], 1, POSEIDON2_INPUT_LEN) = call.args[1]
          /\ \A q \in SpongeRuns(perm, ZeroState, call.args[1]) :
                 SubSeq(call.args[4], POSEIDON2_INPUT_LEN + 1,
                        POSEIDON2_INPUT_LEN + POSEIDON2_OUT)
                     = SubSeq(q.state, 1, POSEIDON2_OUT)
    /\ call.fn = "Poseidon2HashAir::eval" =>
          \E public \in HashPublicValues(call.args[1], call.args[3]) :
              Poseidon2HashAirEval(perm, call.args[2], public)

\* an accepted trace whose second permutation takes cells of the input and
\* cells of a non-zero first output, the digest being non-zero
HashTraceIsSpongeDigestWitness ==
    /\ call.fn = "Poseidon2HashAir::eval"
    /\ ret.tag = "Accept"
    /\ \E i \in 1..POSEIDON2_WIDTH :
          /\ (i > POSEIDON2_RATE \/ POSEIDON2_RATE + i > POSEIDON2_INPUT_LEN)
          /\ call.args[2].outputs[1][i] # 0
          /\ call.args[2].inputs[2][i] = call.args[2].outputs[1][i]
    /\ \E i \in 1..POSEIDON2_RATE :
          /\ POSEIDON2_RATE + i <= POSEIDON2_INPUT_LEN
          /\ call.args[1][POSEIDON2_RATE + i] # call.args[2].outputs[1][i]
    /\ \E i \in 1..POSEIDON2_OUT : call.args[3][i] # 0

\* C26: the packed public values of an accepted hash trace are the limbs
\* d0 | d1 << 31, d2 | d3 << 31 and d4 that hash_challenge packs
PackedPublicValuesAreChallengeLimbs ==
    (call.fn = "Poseidon2HashAir::eval" /\ ret.tag = "Accept") =>
        LET digest == call.args[3]
            public_packed == SubSeq(call.args[4], POSEIDON2_INPUT_LEN + POSEIDON2_OUT + 1,
                                    Len(call.args[4]))
        IN /\ public_packed[1] = BitOr(digest[1], (digest[2] * (2 ^ DIGEST_SHIFT)) % WordMod)
           /\ public_packed[2] = BitOr(digest[3], (digest[4] * (2 ^ DIGEST_SHIFT)) % WordMod)
           /\ public_packed[3] = digest[5]

\* C30: build_poseidon2_hash_trace returns Ok exactly for the inputs of
\* POSEIDON2_INPUT_LEN elements and no trace otherwise, so that R || pk || msg
\* has a trace only for the messages of three elements, although
\* hash_challenge computes a challenge for the others
HashTraceOnlyForFixedLength ==
    call.fn = "build_poseidon2_hash_trace" =>
        /\ ret.tag = "Ok" <=> Len(call.args[1]) = POSEIDON2_INPUT_LEN
        /\ ret.tag \in {"Ok", "Err"}
        /\ ret.tag = "Err" => (ret.trace = NoHashTrace /\ ret.digest = <<>>)
        /\ \A r \in HashPoints, pk \in HashPoints, msg \in HashMessages :
              call.args[1] = encode_point(r) \o encode_point(pk) \o msg
                  => /\ ret.tag = "Ok" <=> Len(msg) = 3
                     /\ \A out \in hash_challenge(perm, r, pk, msg) : out.tag = "Ok"

\* the refusals: the empty input, an input one element short and one too long
HashTraceOnlyForFixedLengthWitness ==
    /\ call.fn = "build_poseidon2_hash_trace"
    /\ ret.tag = "Err"
    /\ Len(call.args[1]) = POSEIDON2_INPUT_LEN + 1

(***************************************************************************)
(* Properties of the scalar multiplication trace                           *)
(***************************************************************************)
\* C27: for every base point other than the identity and every scalar k,
\* build_scalar_mul_trace runs to its end and the accumulator cells of its
\* last row hold k * P
ScalarMulTraceEndsAtProduct ==
    call.fn = "build_scalar_mul_trace" =>
        /\ ret.tag = "Ok"
        /\ [k \in 1..(2 * COORD_LIMBS) |-> ret.rows[Len(ret.rows)][SM.ACC_X_START + k]]
              = PointCells(from_affine(scalar_mul(call.args[1], call.args[2])))

====
